---- MODULE Spec2Model ----
(***************************************************************************)
(* A model of the connection-bound producer runtime of the Pulsar C++      *)
(* client: one ProducerImpl (lib/ProducerImpl.cc) on top of HandlerBase    *)
(* (lib/HandlerBase.cc) and the ClientConnection objects it attaches to    *)
(* (ClientConnection.cc).  Sizes are in abstract units.                    *)
(***************************************************************************)
EXTENDS Integers, Sequences, FiniteSets, TLC

\* ------------------------------------------------------------------ bounds
MaxMsgs == 3              \* number of sendAsync calls explored
MaxCnx == 2               \* number of ClientConnection objects the pool may create
MaxEpoch == 1             \* reconnection-timer firings explored
MaxPendingMessages == 2   \* conf.getMaxPendingMessages(), unless the run is tight
MemoryLimit == 4          \* client-wide memory limit, in size units
BatchingMaxMessages == 2  \* conf.getBatchingMaxMessages()
DefaultMaxMessageSize == 3 \* Commands::DefaultMaxMessageSize, in size units
MetadataSize == 1         \* msgMetadata.ByteSizeLong(), in size units
MaxCloseAsyncCalls == 1   \* calls of closeAsync explored
MaxRequests == 2          \* lookups, stats and schema requests explored per run
MaxCommands == 3          \* commands a connection has taken when its last PING is sent
ConcurrentLookupRequest == 1 \* conf.getConcurrentLookupRequest(): lookups in flight per connection
MaxAuthResponseWrites == 2 \* writes of AUTH_RESPONSE explored in flight on one connection

Msgs == 1..MaxMsgs
Creator == MaxMsgs + 1    \* handleCreateProducer, as a holder of mutex_
Cnxs == 1..MaxCnx
TheProducer == "producer" \* the one producer
TheConsumer == "consumer" \* one consumer sharing the connections
Handlers == {TheProducer, TheConsumer}

\* ----------------------------------------------------------- configuration
BaseConf ==
    [batching |-> FALSE, chunking |-> FALSE, blockIfQueueFull |-> FALSE,
     lazy |-> FALSE, initialSequenceId |-> -1, sendTimeout |-> 1,
     encryption |-> FALSE, maxPendingMessages |-> MaxPendingMessages]

Batching == [BaseConf EXCEPT !.batching = TRUE]
Chunking == [BaseConf EXCEPT !.chunking = TRUE]
Blocking == [BaseConf EXCEPT !.blockIfQueueFull = TRUE]
BlockingChunking == [BaseConf EXCEPT !.chunking = TRUE, !.blockIfQueueFull = TRUE]
Lazy == [BaseConf EXCEPT !.lazy = TRUE]
WithInitialSequenceId == [BaseConf EXCEPT !.initialSequenceId = 1]
NoSendTimeout == [BaseConf EXCEPT !.sendTimeout = 0]
Encrypting == [BaseConf EXCEPT !.chunking = TRUE, !.encryption = TRUE]
Tight == [BaseConf EXCEPT !.maxPendingMessages = MaxPendingMessages - 1]
Roomy == [BlockingChunking EXCEPT !.maxPendingMessages = MaxPendingMessages + 1]

\* The messages a caller may pass to sendAsync.
PlainMsg == [size |-> 1, delayed |-> FALSE, hasSeq |-> FALSE, seq |-> 0, named |-> FALSE]
BigMsg == [PlainMsg EXCEPT !.size = DefaultMaxMessageSize]  \* payload of maxMessageSize
DelayedMsg == [PlainMsg EXCEPT !.delayed = TRUE]            \* has deliver_at_time
SeqMsg == [PlainMsg EXCEPT !.hasSeq = TRUE, !.seq = 1]      \* caller-supplied sequence id
NamedMsg == [PlainMsg EXCEPT !.named = TRUE]                \* producer_name already set

\* The kinds explored under configuration c: those its code paths tell apart.
MsgKinds(c) ==
    IF c.batching THEN {PlainMsg, DelayedMsg}
    ELSE IF c.chunking THEN {PlainMsg, BigMsg}
    ELSE IF c.blockIfQueueFull THEN {PlainMsg}
    ELSE IF c.maxPendingMessages < MaxPendingMessages THEN {PlainMsg, BigMsg}
    ELSE {PlainMsg, BigMsg, SeqMsg, NamedMsg}

\* One run: the producer's configuration, the number of sendAsync calls the
\* application makes, what else it calls (app) and what the broker and the
\* network may do to the client (faults).
Run(c, calls, app, faults) ==
    [conf |-> c, env |-> [calls |-> calls, app |-> app, faults |-> faults]]

AllFaults == {"lookup", "disconnect", "closeProducer", "createError", "closeError",
              "notReady", "lastSeq", "requestTimeout", "sendError", "sendTimeout",
              "deadline", "lookupTimeout", "aborted"}

\* a message whose send callback throws a std::exception, on every path that
\* completes it, and around closeAsync
ThrowRuns ==
    { Run(BaseConf, 1, {}, {"sendTimeout", "sendError", "createError", "throw"}),
      Run(BaseConf, 1, {"close"}, {"throw"}) }

\* two messages whose ops time out or come back with a send error
SendRuns ==
    { Run(c, MaxMsgs - 1, {}, {"sendTimeout", "sendError"}) : c \in {BaseConf, Batching} }

\* connections alone, shared with a consumer, under every fault
CnxRuns ==
    { Run(BaseConf, 0, {"consumer"}, AllFaults) }

\* two messages around disconnections and reconnections
ReconnectRuns ==
    { Run(c, MaxMsgs - 1, {}, {"disconnect", "closeProducer", "sendTimeout"}) :
        c \in {BaseConf, Batching, Chunking} }

\* two messages and flushAsync / triggerFlush
FlushRuns ==
    { Run(c, MaxMsgs - 1, {"flush"}, {"sendTimeout"}) : c \in {BaseConf, Batching} }

\* closeAsync, with every outcome of CLOSE_PRODUCER
CloseRuns ==
    { Run(BaseConf, 1, {"close"}, {"closeError", "requestTimeout", "disconnect", "aborted"}),
      Run(Batching, MaxMsgs - 1, {"close"}, {"closeError", "aborted"}),
      Run(BlockingChunking, MaxMsgs - 1, {"close"}, {"sendTimeout"}) }

\* the ways a producer starts: lookups and creations that fail, a broker that
\* knows the producer, the other configurations
StartRuns ==
    { Run(Lazy, MaxMsgs - 1, {}, {"lookup", "sendTimeout"}),
      Run(BaseConf, MaxMsgs - 1, {}, {"lookup", "createError", "lastSeq", "deadline"}),
      Run(WithInitialSequenceId, MaxMsgs - 1, {}, {"lastSeq", "sendTimeout"}),
      Run(Encrypting, MaxMsgs - 1, {}, {"sendTimeout", "maxSize"}),
      Run(NoSendTimeout, MaxMsgs - 1, {}, {"disconnect"}),
      Run(BlockingChunking, MaxMsgs - 1, {}, {"sendError"}) }

\* three messages against a queue of one permit less
TightRuns ==
    { Run(Tight, MaxMsgs, {}, {"sendTimeout"}) }

\* the client shuts the producer down while it starts or is being closed
ShutdownRuns ==
    { Run(BaseConf, 1, {"shutdown", "close"}, {"lookup", "createError"}) }

\* the requests of the other registries while connections come and go
RequestRuns ==
    { Run(BaseConf, 0, {"requests"}, {"disconnect"}),
      Run(BaseConf, 0, {"requests"}, {"lookupTimeout"}) }

\* connection setups that fail or are overtaken by a close
HandshakeRuns ==
    { Run(BaseConf, 0, {}, {"disconnect", "connect", "badFrame", "maxSize"}) }

\* an idle connection and its keep-alive timer, and a connection on which a
\* consumer gets messages
KeepAliveRuns ==
    { Run(BaseConf, 0, {}, {"keepAlive", "aborted"}),
      Run(BaseConf, 0, {"consumer"}, {"keepAlive"}) }

\* commands accepted while a write is in flight
WriteRuns ==
    { Run(BaseConf, 1, {"requests"}, {"slowWrites"}) }

\* a message written slowly while the broker asks for authentication again
AuthRuns ==
    { Run(BaseConf, 1, {}, {"slowWrites", "authChallenge"}) }

\* two messages that do not fit into the memory limit together, with a client
\* that closes its memory limit controller
MemoryRuns ==
    { Run(Roomy, MaxMsgs - 1, {"clientClose"}, {}) }

Runs ==
    SendRuns \cup ReconnectRuns \cup CnxRuns \cup FlushRuns \cup CloseRuns \cup StartRuns
    \cup TightRuns \cup ShutdownRuns \cup RequestRuns \cup HandshakeRuns
    \cup KeepAliveRuns \cup WriteRuns \cup MemoryRuns
    \cup AuthRuns \cup ThrowRuns

\* The runs explored under fairness: a message sent while the first lookup is
\* under way, and closeAsync with a broker that may refuse CLOSE_PRODUCER.
LiveRuns ==
    { Run(BaseConf, 1, {}, {"lookup", "sendTimeout"}),
      Run(BaseConf, 1, {"close"}, {"closeError", "sendTimeout"}) }

\* A sendAsync call that has not started.
NewMsg == [phase |-> "new", kind |-> PlainMsg, seq |-> 0, need |-> 0]

VARIABLES
    conf,                    \* conf_ (fixed at construction)
    env,                     \* what the application and the broker do in this run
    state,                   \* HandlerBase::state_
    connection,              \* HandlerBase::connection_ (0 = none)
    reconnectionPending,     \* HandlerBase::reconnectionPending_
    epoch,                   \* HandlerBase::epoch_
    timer,                   \* HandlerBase::timer_ (the reconnection timer)
    cnxRequest,              \* the getConnection future grabCnx waits on
    pendingMessagesQueue,    \* ProducerImpl::pendingMessagesQueue_
    batchMessageContainer,   \* messages held by batchMessageContainer_
    msgSequenceGenerator,    \* ProducerImpl::msgSequenceGenerator_
    lastSequenceIdPublished, \* ProducerImpl::lastSequenceIdPublished_
    semaphore,               \* permits of semaphore_ in use
    semaphoreClosed,         \* semaphore_->close() was called
    memory,                  \* bytes reserved in memoryLimitController_
    memoryClosed,            \* memoryLimitController_ was closed (by its owner, the client)
    producerCreatedPromise,  \* "pending", "value" or "failed"
    sendTimer,               \* sendTimer_: "idle" or "armed"
    batchTimer,              \* batchTimer_: "idle" or "armed"
    mutexHolder,             \* who is stopped while holding mutex_ (0 = nobody)
    failing,                 \* connectionFailed has failed the promise, not yet stored Failed
    msg,                     \* per sendAsync call: where the call is, what it got
    cbLog,                   \* send callbacks invoked so far, in order
    chunkedMessageId,        \* per message: the ChunkMessageIdImpl its chunk ops share
    messageIds,              \* per message: the MessageId its callback got with ResultOk
    destroyed,               \* ops destroyed without having been completed
    ioDone,                  \* ops popped by a connection handler, to complete after unlock
    timerDone,               \* ops popped by handleSendTimeout, to complete after unlock
    crashed,                 \* the process dereferenced a null or dangling pointer
    flush,                   \* the flushAsync call in progress
    flushLog,                \* flush callbacks invoked so far
    closeLog,                \* close callbacks invoked so far
    closeAsyncCalls,         \* calls of closeAsync so far
    thrown,                  \* an exception thrown by a send callback left the handler that ran it
    maxMessageSize,          \* ClientConnection::maxMessageSize_ (process-wide)
    cnxState,                \* ClientConnection::state_ per connection
    connectPromise,          \* ClientConnection::connectPromise_: "Pending", "Ok" or the failure
    cnxProducers,            \* ClientConnection::producers_ and consumers_ (handler ids)
    pendingRequests,         \* ClientConnection::pendingRequests_
    frames,                  \* SEND frames handed to the connection, in order
    cursor,                  \* how many of them the broker has answered
    closing,                 \* what the running calls of ClientConnection::close moved out, per connection
    disconnections,          \* handleDisconnection deliveries per connection and handler
    handshake,               \* per connection: the completion its setup still waits for
    registries,              \* per connection and registry: is an entry in it, and its promise
    havePendingPingRequest,  \* ClientConnection::havePendingPingRequest_
    keepAliveTimer,          \* ClientConnection::keepAliveTimer_: "none" or "armed"
    pendingWriteOperations,  \* ClientConnection::pendingWriteOperations_
    pendingWriteBuffers,     \* ClientConnection::pendingWriteBuffers_
    socket,                  \* the commands handed to asyncWrite since the connection opened
    accepted,                \* the commands sendCommand / sendMessage took since then
    authResponseWrites,      \* writes of AUTH_RESPONSE whose completion handler has not run
    numOfPendingLookupRequest, \* per connection: numOfPendingLookupRequest_
    frameReceived            \* per connection: a frame came in since the keep-alive handler
                             \* last ran (followed in the runs with keep-alive timeouts)

prodVars == <<state, connection, reconnectionPending, epoch, timer, cnxRequest,
              pendingMessagesQueue, batchMessageContainer, msgSequenceGenerator,
              lastSequenceIdPublished, semaphore, semaphoreClosed, memory, memoryClosed,
              producerCreatedPromise, sendTimer, batchTimer, mutexHolder, failing>>
userVars == <<msg, cbLog, chunkedMessageId, messageIds, destroyed, ioDone, timerDone, crashed, flush, flushLog, closeLog,
             closeAsyncCalls, thrown>>
cnxVars == <<maxMessageSize, cnxState, connectPromise, cnxProducers, pendingRequests, frames,
             cursor, closing, disconnections, handshake, registries,
             havePendingPingRequest, keepAliveTimer, pendingWriteOperations,
             pendingWriteBuffers, socket, accepted, authResponseWrites,
             numOfPendingLookupRequest, frameReceived>>
vars == <<conf, env, prodVars, userVars, cnxVars>>

\* ----------------------------------------------------------------- helpers
NoOp == [id |-> 0, seq |-> 0, cnt |-> 0, size |-> 0, cbs |-> <<>>, chunkId |-> 0,
         numChunks |-> 0, beginIndex |-> 0, endIndex |-> 0, trk |-> 0, result |-> "Ok"]

\* A pending request: what it asks for, hasGotResponse, and whether its promise
\* has been completed.
\* got: hasGotResponse; fired: the deadline timer has fired; done: the timer
\* has failed the promise with Timeout.
Request(kind) == [kind |-> kind, got |-> FALSE, fired |-> FALSE, done |-> FALSE]
NoReq == Request("none")

\* What a connection handler has left to do after releasing the mutex: complete
\* an op it popped, or complete the promise of a request it erased.
IoOp(op, r, release, messageId) ==
    [type |-> "op", op |-> op, r |-> r, release |-> release, c |-> 0, req |-> NoReq,
     last |-> -1, messageId |-> messageId]
IoResp(c, req, r, last) ==
    [type |-> "resp", op |-> NoOp, r |-> r, release |-> FALSE, c |-> c, req |-> req,
     last |-> last, messageId |-> <<>>]

\* The registries of a connection besides pendingRequests_: pendingLookupRequests_,
\* pendingConsumerStatsMap_, pendingGetLastMessageIdRequests_,
\* pendingGetNamespaceTopicsRequests_ and pendingGetSchemaRequests_.  The model
\* follows one request per registry, and two in pendingLookupRequests_ (a topic
\* lookup and a partitioned-metadata lookup): whether it is in the map, and its
\* promise ("none" before the request is made, then "Pending", "Ok" or the
\* failure).
Registries == {"lookup", "partitionedMetadata", "consumerStats", "getLastMessageId",
               "getTopicsOfNamespace", "getSchema"}
LookupKinds == {"lookup", "partitionedMetadata"}
NoEntry == [in |-> FALSE, promise |-> "none"]

\* A ChunkMessageIdImpl nothing was set in, and the MessageId of a callback
\* that has not run with ResultOk.  A MessageId is the tuple of the ids of the
\* entries the broker stored: one, or first and last for a chunked message.
NoChunkMessageId == [first |-> 0, last |-> 0]
NoMessageId == [id |-> <<>>, numChunks |-> 0]

\* The run lets f happen.
Fault(f) == f \in env.faults

\* A command buffer handed to a connection: its type and, for SEND, the op.
Command(cmd, id) == [cmd |-> cmd, id |-> id]

\* A null std::unique_ptr<OpSendMsg> left in the list.
IsNull(op) == op.id = 0

\* The bytes of the messages of a batch container.
RECURSIVE TotalSize(_)
TotalSize(c) == IF c = <<>> THEN 0 ELSE Head(c).size + TotalSize(Tail(c))

HasNull(q) == \E i \in 1..Len(q) : IsNull(q[i])

\* Call m's callback is still owed by an op of ops.
OwedBy(ops, m) == \E i \in 1..Len(ops) : \E j \in 1..Len(ops[i].cbs) : ops[i].cbs[j] = m

\* The callbacks op->complete(result, ...) invokes, as log entries.
CompleteOp(op, result) == [i \in 1..Len(op.cbs) |-> [m |-> op.cbs[i], r |-> result]]

RECURSIVE CompleteAll(_, _)
CompleteAll(ops, result) ==
    IF ops = <<>> THEN <<>>
    ELSE CompleteOp(Head(ops), result) \o CompleteAll(Tail(ops), result)

\* ---------------------------------------------------------------- the start
Constructed(runs) ==
    /\ \E r \in runs : conf = r.conf /\ env = r.env
    /\ state = "NotStarted"
    /\ connection = 0
    /\ reconnectionPending = FALSE
    /\ epoch = 0
    /\ timer = "idle"
    /\ cnxRequest = -1
    /\ pendingMessagesQueue = <<>>
    /\ batchMessageContainer = <<>>
    /\ msgSequenceGenerator = conf.initialSequenceId + 1
    /\ lastSequenceIdPublished = conf.initialSequenceId
    /\ semaphore = 0
    /\ semaphoreClosed = FALSE
    /\ memory = 0
    /\ memoryClosed = FALSE
    /\ producerCreatedPromise = "pending"
    /\ sendTimer = "idle"
    /\ batchTimer = "idle"
    /\ mutexHolder = 0
    /\ failing = FALSE
    /\ msg = [m \in Msgs |-> NewMsg]
    /\ cbLog = <<>>
    /\ chunkedMessageId = [m \in Msgs |-> NoChunkMessageId]
    /\ messageIds = [m \in Msgs |-> NoMessageId]
    /\ destroyed = {}
    /\ ioDone = <<>>
    /\ timerDone = <<>>
    /\ crashed = FALSE
    /\ flush = [pc |-> "idle", op |-> 0]
    /\ flushLog = <<>>
    /\ closeLog = <<>>
    /\ closeAsyncCalls = 0
    /\ thrown = FALSE
    /\ maxMessageSize = DefaultMaxMessageSize
    /\ cnxState = [c \in Cnxs |-> "None"]
    /\ connectPromise = [c \in Cnxs |-> "Pending"]
    /\ cnxProducers = [c \in Cnxs |-> {}]
    /\ pendingRequests = [c \in Cnxs |-> {}]
    /\ frames = [c \in Cnxs |-> <<>>]
    /\ cursor = [c \in Cnxs |-> 0]
    /\ closing = [c \in Cnxs |-> <<>>]
    /\ disconnections = [c \in Cnxs |-> [h \in Handlers |-> 0]]
    /\ handshake = [c \in Cnxs |-> "none"]
    /\ registries = [c \in Cnxs |-> [k \in Registries |-> NoEntry]]
    /\ havePendingPingRequest = [c \in Cnxs |-> FALSE]
    /\ keepAliveTimer = [c \in Cnxs |-> "none"]
    /\ pendingWriteOperations = [c \in Cnxs |-> 0]
    /\ pendingWriteBuffers = [c \in Cnxs |-> <<>>]
    /\ socket = [c \in Cnxs |-> <<>>]
    /\ accepted = [c \in Cnxs |-> <<>>]
    /\ authResponseWrites = [c \in Cnxs |-> 0]
    /\ numOfPendingLookupRequest = [c \in Cnxs |-> 0]
    /\ frameReceived = [c \in Cnxs |-> FALSE]

Init == Constructed(Runs)

\* The whole state as one record, so that a handler is a function from the
\* state before it to the state after it and handlers compose as in the code.
World ==
    [state |-> state, connection |-> connection,
     reconnectionPending |-> reconnectionPending, epoch |-> epoch, timer |-> timer,
     cnxRequest |-> cnxRequest, pendingMessagesQueue |-> pendingMessagesQueue,
     batchMessageContainer |-> batchMessageContainer,
     msgSequenceGenerator |-> msgSequenceGenerator,
     lastSequenceIdPublished |-> lastSequenceIdPublished, semaphore |-> semaphore,
     semaphoreClosed |-> semaphoreClosed, memory |-> memory, memoryClosed |-> memoryClosed,
     producerCreatedPromise |-> producerCreatedPromise, sendTimer |-> sendTimer,
     batchTimer |-> batchTimer, mutexHolder |-> mutexHolder, failing |-> failing,
     msg |-> msg,
     cbLog |-> cbLog, chunkedMessageId |-> chunkedMessageId, messageIds |-> messageIds,
     destroyed |-> destroyed, ioDone |-> ioDone,
     timerDone |-> timerDone, crashed |-> crashed, flush |-> flush,
     flushLog |-> flushLog, closeLog |-> closeLog,
     closeAsyncCalls |-> closeAsyncCalls, thrown |-> thrown,
     maxMessageSize |-> maxMessageSize,
     cnxState |-> cnxState, connectPromise |-> connectPromise, cnxProducers |-> cnxProducers,
     pendingRequests |-> pendingRequests, frames |-> frames, cursor |-> cursor,
     closing |-> closing, disconnections |-> disconnections, handshake |-> handshake,
     registries |-> registries, havePendingPingRequest |-> havePendingPingRequest,
     keepAliveTimer |-> keepAliveTimer, pendingWriteOperations |-> pendingWriteOperations,
     pendingWriteBuffers |-> pendingWriteBuffers, socket |-> socket, accepted |-> accepted,
     authResponseWrites |-> authResponseWrites,
     numOfPendingLookupRequest |-> numOfPendingLookupRequest,
     frameReceived |-> frameReceived]

Set(w) ==
    /\ state' = w.state /\ connection' = w.connection
    /\ reconnectionPending' = w.reconnectionPending /\ epoch' = w.epoch
    /\ timer' = w.timer /\ cnxRequest' = w.cnxRequest
    /\ pendingMessagesQueue' = w.pendingMessagesQueue
    /\ batchMessageContainer' = w.batchMessageContainer
    /\ msgSequenceGenerator' = w.msgSequenceGenerator
    /\ lastSequenceIdPublished' = w.lastSequenceIdPublished
    /\ semaphore' = w.semaphore /\ semaphoreClosed' = w.semaphoreClosed
    /\ memory' = w.memory /\ memoryClosed' = w.memoryClosed
    /\ producerCreatedPromise' = w.producerCreatedPromise
    /\ sendTimer' = w.sendTimer /\ batchTimer' = w.batchTimer
    /\ mutexHolder' = w.mutexHolder /\ failing' = w.failing
    /\ msg' = w.msg /\ cbLog' = w.cbLog
    /\ chunkedMessageId' = w.chunkedMessageId /\ messageIds' = w.messageIds
    /\ destroyed' = w.destroyed /\ ioDone' = w.ioDone /\ timerDone' = w.timerDone
    /\ crashed' = w.crashed /\ flush' = w.flush /\ flushLog' = w.flushLog
    /\ closeAsyncCalls' = w.closeAsyncCalls
    /\ thrown' = w.thrown
    /\ closeLog' = w.closeLog
    /\ maxMessageSize' = w.maxMessageSize
    /\ cnxState' = w.cnxState /\ connectPromise' = w.connectPromise
    /\ cnxProducers' = w.cnxProducers /\ pendingRequests' = w.pendingRequests
    /\ frames' = w.frames /\ cursor' = w.cursor /\ closing' = w.closing
    /\ disconnections' = w.disconnections
    /\ handshake' = w.handshake /\ registries' = w.registries
    /\ havePendingPingRequest' = w.havePendingPingRequest
    /\ keepAliveTimer' = w.keepAliveTimer
    /\ pendingWriteOperations' = w.pendingWriteOperations
    /\ pendingWriteBuffers' = w.pendingWriteBuffers
    /\ socket' = w.socket /\ accepted' = w.accepted
    /\ authResponseWrites' = w.authResponseWrites
    /\ numOfPendingLookupRequest' = w.numOfPendingLookupRequest
    /\ frameReceived' = w.frameReceived
    /\ UNCHANGED <<conf, env>>

\* ------------------------------------------- Semaphore, MemoryLimitController
\* semaphore_->release(op.messagesCount); releaseMemory(op.messagesSize)
releaseSemaphoreForSendOp(w, op) ==
    [w EXCEPT !.semaphore = @ - op.cnt, !.memory = @ - op.size]

\* semaphore_->release(); releaseMemory(payloadSize)
releaseSemaphore(w, payloadSize) ==
    [w EXCEPT !.semaphore = @ - 1, !.memory = @ - payloadSize]

RECURSIVE releaseAll(_, _)
releaseAll(w, ops) ==
    IF ops = <<>> THEN w ELSE releaseAll(releaseSemaphoreForSendOp(w, Head(ops)), Tail(ops))

\* ------------------------------------------------------- OpSendMsg, batches
\* One op per message and chunk; a batch takes the id of its first message.
MaxChunks == DefaultMaxMessageSize + 1
OpId(m, chunkId) == (m - 1) * MaxChunks + chunkId + 1
MsgOf(id) == ((id - 1) \div MaxChunks) + 1   \* the message an op was made for

\* BatchMessageContainer::createOpSendMsg: one op for the whole container, with
\* the sequence id of its first message; it fails when the batch does not fit
\* into one frame.
createOpSendMsg(w) ==
    LET c == w.batchMessageContainer
        total == TotalSize(c)
    IN [id |-> OpId(c[1].m, 0), seq |-> c[1].seq, cnt |-> Len(c), size |-> total,
        cbs |-> [i \in 1..Len(c) |-> c[i].m], chunkId |-> 0, numChunks |-> 0,
        beginIndex |-> 0, endIndex |-> total, trk |-> 0,
        result |-> IF MetadataSize + total > w.maxMessageSize THEN "MessageTooBig"
                   ELSE "Ok"]

\* op->complete(result, messageId): the send callbacks, then the flush trackers.
\* In a run whose send callbacks throw, the first callback of the op runs and
\* its exception leaves complete.
complete(w, op, result) ==
    IF Fault("throw") /\ op.cbs # <<>>
    THEN [w EXCEPT !.cbLog = Append(@, CompleteOp(op, result)[1]), !.thrown = TRUE]
    ELSE [w EXCEPT !.cbLog = @ \o CompleteOp(op, result),
                   !.flushLog = @ \o [i \in 1..op.trk |-> result]]

\* for (op : ops) op->complete(result, {}): nothing catches in the loop
RECURSIVE completeAll(_, _, _)
completeAll(w, ops, result) ==
    IF ops = <<>> \/ w.thrown THEN w
    ELSE completeAll(complete(w, Head(ops), result), Tail(ops), result)

\* try { ... } catch (const std::exception&): the exception is logged
caught(w) == [w EXCEPT !.thrown = FALSE]

\* nothing catches: the exception leaves the handler and the thread that ran it
uncaught(w) == IF w.thrown THEN [w EXCEPT !.crashed = TRUE] ELSE w

\* ------------------------------------------------------------- HandlerBase
scheduleReconnection(w) ==
    IF w.state \in {"Pending", "Ready"} THEN [w EXCEPT !.timer = "armed"] ELSE w

resetCnx(w) == [w EXCEPT !.connection = 0]

registerProducer(w, c) == [w EXCEPT !.cnxProducers[c] = @ \cup {TheProducer}]

removeProducer(w, c) == [w EXCEPT !.cnxProducers[c] = @ \ {TheProducer}]

\* setCnx, with ProducerImpl::beforeConnectionChange on the previous connection
setCnx(w, c) ==
    LET w1 == IF w.connection # 0 THEN removeProducer(w, w.connection) ELSE w
    IN [w1 EXCEPT !.connection = c]

convertToTimeoutIfNecessary(result, elapsed) ==
    IF result = "Retryable" /\ elapsed THEN "Timeout" ELSE result

\* ---------------------------------------------- ClientConnection, send side
\* asyncWrite on the plain socket (no tlsSocket_)
asyncWrite(w, c, cmd) == [w EXCEPT !.socket[c] = Append(@, cmd)]

\* sendPendingCommands: the next queued buffer, if any, goes to the socket
sendPendingCommands(w, c) ==
    LET w1 == [w EXCEPT !.pendingWriteOperations[c] = @ - 1]
    IN IF w1.pendingWriteOperations[c] > 0
       THEN asyncWrite([w1 EXCEPT !.pendingWriteBuffers[c] = Tail(@)], c,
                       Head(w.pendingWriteBuffers[c]))
       ELSE w1

\* The write just started completes without error before anything else
\* happens, unless the run has slow writes: then HandleSend runs later.
written(w, c) == IF Fault("slowWrites") THEN w ELSE sendPendingCommands(w, c)

\* A sendCommand that queues the buffer at the front.
sendCommandPushFront(w, c, cmd) ==
    LET w1 == [w EXCEPT !.accepted[c] = Append(@, cmd),
                        !.pendingWriteOperations[c] = @ + 1]
    IN IF w.pendingWriteOperations[c] = 0
       THEN written(asyncWrite(w1, c, cmd), c)
       ELSE [w1 EXCEPT !.pendingWriteBuffers[c] = <<cmd>> \o @]

\* ClientConnection::sendCommand, and the same steps of sendMessage
sendCommand(w, c, cmd) ==
    LET w1 == [w EXCEPT !.accepted[c] = Append(@, cmd),
                        !.pendingWriteOperations[c] = @ + 1]
    IN IF w.pendingWriteOperations[c] = 0
       THEN written(asyncWrite(w1, c, cmd), c)
       ELSE [w1 EXCEPT !.pendingWriteBuffers[c] = Append(@, cmd)]

\* ClientConnection::sendMessage: the frame is handed to the connection.
cnxSendMessage(w, c, op) ==
    IF w.cnxState[c] = "Disconnected" THEN w
    ELSE sendCommand([w EXCEPT !.frames[c] = Append(@, [id |-> op.id, seq |-> op.seq])],
                     c, Command("SEND", op.id))

\* sendRequestWithId for a request nobody listens to (CLOSE_PRODUCER sent by
\* handleCreateProducer): on a closed connection the promise fails at once.
sendCloseProducer(w, c) ==
    IF w.cnxState[c] = "Disconnected" THEN w
    ELSE sendCommand([w EXCEPT !.pendingRequests[c] = @ \cup {Request("cleanup")}],
                     c, Command("CLOSE_PRODUCER", 0))

\* --------------------------------------------------- ProducerImpl, failures
\* The ops getPendingCallbacksWhenFailed returns: the queue, then the op made
\* of the batch container unless its creation failed.
PendingCallbacks(w) ==
    w.pendingMessagesQueue \o
    (IF w.batchMessageContainer = <<>> \/ createOpSendMsg(w).result # "Ok" THEN <<>>
     ELSE <<createOpSendMsg(w)>>)

getPendingCallbacksWhenFailed(w) ==
    LET w1 == releaseAll([w EXCEPT !.pendingMessagesQueue = <<>>], w.pendingMessagesQueue)
    IN IF w.batchMessageContainer = <<>> THEN w1
       ELSE LET op == createOpSendMsg(w)
                w2 == releaseSemaphoreForSendOp(w1, op)
            IN [w2 EXCEPT !.batchMessageContainer = <<>>,
                          !.destroyed = IF op.result = "Ok" THEN @ ELSE @ \cup {op.id}]

\* failPendingMessages(result, false).  Dereferencing a null op of the queue is
\* undefined; the process dies there.
failPendingMessages(w, result) ==
    IF HasNull(w.pendingMessagesQueue) THEN [w EXCEPT !.crashed = TRUE]
    ELSE uncaught(completeAll(getPendingCallbacksWhenFailed(w), PendingCallbacks(w), result))

\* A resend that stops after the head of the queue.
resendHeadOnly(w, c) ==
    IF w.pendingMessagesQueue = <<>> THEN w
    ELSE IF HasNull(w.pendingMessagesQueue) THEN [w EXCEPT !.crashed = TRUE]
    ELSE cnxSendMessage(w, c, Head(w.pendingMessagesQueue))

resendMessages(w, c) ==
    LET RECURSIVE send(_, _)
        send(v, ops) == IF ops = <<>> THEN v
                        ELSE send(cnxSendMessage(v, c, Head(ops)), Tail(ops))
    IN IF HasNull(w.pendingMessagesQueue) THEN [w EXCEPT !.crashed = TRUE]
       ELSE send(w, w.pendingMessagesQueue)

startSendTimeoutTimer(w) ==
    IF conf.sendTimeout > 0 THEN [w EXCEPT !.sendTimer = "armed"] ELSE w

cancelTimers(w) == [w EXCEPT !.sendTimer = "idle", !.batchTimer = "idle"]

setFailed(w) ==
    [w EXCEPT !.producerCreatedPromise = IF @ = "pending" THEN "failed" ELSE @]

shutdown(w) ==
    [setFailed(cancelTimers(resetCnx(w))) EXCEPT !.state = "Closed"]

\* The callback closeAsync wraps around the caller's.
closeCallback(w, result) ==
    LET w1 == IF result = "Ok" THEN shutdown(w) ELSE w
    IN [w1 EXCEPT !.closeLog = Append(@, result)]

\* handleCreateProducer from state_ = Ready on: the state is stored whatever it
\* has become since it was loaded at the top of the handler.
handleCreateProducerReady(w) ==
    LET w4 == [w EXCEPT !.state = "Ready", !.mutexHolder = 0]
        w5 == IF ~conf.lazy THEN startSendTimeoutTimer(w4) ELSE w4
    IN [w5 EXCEPT !.producerCreatedPromise = IF @ = "pending" THEN "value" ELSE @]

\* handleCreateProducer; on success up to setCnx, with mutex_ still held.
handleCreateProducer(w, c, result, lastSequenceId, elapsed) ==
    IF w.state \notin {"Ready", "Pending"} THEN
        LET w1 == failPendingMessages(w, "AlreadyClosed")
            w2 == IF result \in {"Ok", "Timeout"} THEN sendCloseProducer(w1, c) ELSE w1
        IN IF w1.crashed THEN w1 ELSE setFailed(w2)
    ELSE IF result = "Ok" THEN
        LET w1 == registerProducer(w, c)
            w2 == IF w1.lastSequenceIdPublished = -1 /\ conf.initialSequenceId = -1
                  THEN [w1 EXCEPT !.lastSequenceIdPublished = lastSequenceId,
                                  !.msgSequenceGenerator = lastSequenceId + 1]
                  ELSE w1
            w3 == resendMessages(w2, c)
        IN IF w3.crashed THEN w3 ELSE [setCnx(w3, c) EXCEPT !.mutexHolder = Creator]
    ELSE
        LET w1 == IF result = "Timeout" THEN sendCloseProducer(w, c) ELSE w
        IN IF result = "ProducerFenced" THEN
               LET w2 == failPendingMessages([w1 EXCEPT !.state = "Producer_Fenced"], result)
               IN IF w2.crashed THEN w2 ELSE setFailed(w2)
           ELSE IF w1.producerCreatedPromise # "pending" THEN
               LET w2 == IF result = "ProducerBlockedQuotaExceededException"
                         THEN failPendingMessages(w1, result) ELSE w1
               IN IF w2.crashed THEN w2 ELSE scheduleReconnection(w2)
           ELSE IF convertToTimeoutIfNecessary(result, elapsed) = "Retryable" THEN
               scheduleReconnection(w1)
           ELSE
               LET w2 == failPendingMessages(w1, convertToTimeoutIfNecessary(result, elapsed))
               IN IF w2.crashed THEN w2 ELSE setFailed([w2 EXCEPT !.state = "Failed"])

\* The listener of a request's future, run when its promise is completed.
requestListener(w, c, req, result, lastSequenceId, elapsed) ==
    IF req.done \/ w.crashed THEN w
    ELSE IF req.kind = "create" THEN handleCreateProducer(w, c, result, lastSequenceId, elapsed)
    ELSE IF req.kind = "close" THEN closeCallback(w, result)
    ELSE w

\* ProducerImpl::connectionOpened: CREATE_PRODUCER is sent with sendRequestWithId;
\* on a closed connection the future fails at once with NotConnected.
connectionOpened(w, c, elapsed) ==
    IF w.state = "Closed" THEN w
    ELSE IF w.cnxState[c] = "Disconnected"
         THEN requestListener(w, c, Request("create"), "NotConnected", -1, elapsed)
         ELSE sendCommand([w EXCEPT !.pendingRequests[c] = @ \cup {Request("create")}],
                          c, Command("PRODUCER", 0))

\* connectionFailed up to the point where setFailed has returned true
connectionFailed(w, result) ==
    IF conf.lazy THEN w
    ELSE IF w.producerCreatedPromise = "pending"
         THEN [w EXCEPT !.producerCreatedPromise = "failed", !.failing = TRUE]
         ELSE w

\* state_ = Failed in connectionFailed, then the rest of handleNewConnection
connectionFailedStore(w) ==
    scheduleReconnection([w EXCEPT !.state = "Failed", !.failing = FALSE])

\* grabCnx up to the call of the pool; pick is the future the pool hands back:
\* 0 fails without a connection, c > 0 resolves with connection c.
grabCnx(w, pick) ==
    IF w.connection # 0 \/ w.reconnectionPending THEN w
    ELSE [w EXCEPT !.reconnectionPending = TRUE, !.cnxRequest = pick,
                   !.cnxState = IF pick > 0 /\ @[pick] = "None"
                                THEN [@ EXCEPT ![pick] = "Pending"] ELSE @,
                   !.handshake = IF pick > 0 /\ w.cnxState[pick] = "None"
                                 THEN [@ EXCEPT ![pick] = "connect"] ELSE @]

\* The futures ClientImpl::getConnection may hand back.
Live(w) == {c \in Cnxs : w.cnxState[c] \notin {"None", "Disconnected"}}

getConnection(w) ==
    {0} \cup (IF Live(w) # {} THEN Live(w)
             ELSE {c \in Cnxs : /\ w.cnxState[c] = "None"
                                /\ \A d \in Cnxs : d < c => w.cnxState[d] # "None"})

start(w, pick) ==
    IF w.state # "NotStarted" THEN w
    ELSE LET w1 == grabCnx([w EXCEPT !.state = "Pending"], pick)
         IN IF conf.lazy THEN startSendTimeoutTimer(w1) ELSE w1

\* A handleNewConnection that leaves reconnectionPending_ as it is.
handleNewConnectionKeepsPending(w, result, c, elapsed) ==
    LET w1 == [w EXCEPT !.cnxRequest = -1]
    IN IF result = "Ok" /\ c # 0 THEN connectionOpened(w1, c, elapsed)
       ELSE LET w2 == connectionFailed(w1, result)
            IN IF w2.failing THEN w2 ELSE scheduleReconnection(w2)

\* c = 0: the connection the future resolved with has expired
handleNewConnection(w, result, c, elapsed) ==
    LET w1 == [w EXCEPT !.reconnectionPending = FALSE, !.cnxRequest = -1]
    IN IF result = "Ok" /\ c # 0 THEN connectionOpened(w1, c, elapsed)
       ELSE LET w2 == connectionFailed(w1, result)
            IN IF w2.failing THEN w2 ELSE scheduleReconnection(w2)

\* A handleDisconnection that arms the timer itself on Retryable.
handleDisconnectionRetryableArms(w, result, c) ==
    IF w.connection # 0 /\ w.connection # c THEN w
    ELSE LET w1 == resetCnx(w)
         IN IF result = "Retryable" THEN [w1 EXCEPT !.timer = "armed"]
            ELSE IF w.state \in {"Pending", "Ready"} THEN scheduleReconnection(w1)
            ELSE w1

handleDisconnection(w, result, c) ==
    IF w.connection # 0 /\ w.connection # c THEN w
    ELSE LET w1 == resetCnx(w)
         IN IF result = "Retryable" THEN scheduleReconnection(w1)
            ELSE IF w.state \in {"Pending", "Ready"} THEN scheduleReconnection(w1)
            ELSE w1

\* A handleTimeout that does not look at the error code.
handleTimeoutIgnoringEc(w, ec, pick) ==
    grabCnx([w EXCEPT !.epoch = @ + 1, !.timer = "idle"], pick)

\* HandlerBase::handleTimeout: ec is set when the wait was cancelled
handleTimeout(w, ec, pick) ==
    IF ec THEN w
    ELSE grabCnx([w EXCEPT !.epoch = @ + 1, !.timer = "idle"], pick)

disconnectProducer(w) == scheduleReconnection(resetCnx(w))

\* ------------------------------------------------------ ProducerImpl, sending
isValidProducerState(st) ==
    IF st \in {"Ready", "Pending"} THEN "Ok"
    ELSE IF st \in {"Closing", "Closed"} THEN "AlreadyClosed"
    ELSE IF st = "Producer_Fenced" THEN "ProducerFenced"
    ELSE "NotConnected"

canAddToBatch(kind) == conf.batching /\ ~kind.delayed

getNumOfChunks(size, maxSize) ==
    IF size >= maxSize /\ maxSize # 0
    THEN (size \div maxSize) + (IF size % maxSize = 0 THEN 0 ELSE 1)
    ELSE 1

\* Semaphore::tryAcquire / acquire can take a permit
PermitFree(w) == w.semaphore + 1 <= conf.maxPendingMessages

\* MemoryLimitController::tryReserveMemory / reserveMemory can reserve
MemoryFree(w, size) == w.memory + size <= MemoryLimit

\* canEnqueueRequest: whether the call returns now (in blocking mode it waits
\* for a permit, then for memory), what it returns and what it leaves behind.
canEnqueueReturns(w, size) ==
    \/ ~conf.blockIfQueueFull
    \/ w.semaphoreClosed
    \/ PermitFree(w) /\ (MemoryFree(w, size) \/ w.memoryClosed)

canEnqueueResult(w, size) ==
    IF conf.blockIfQueueFull
    THEN IF w.semaphoreClosed THEN "Interrupted"
         ELSE IF ~MemoryFree(w, size) THEN "Interrupted"
         ELSE "Ok"
    ELSE IF ~PermitFree(w) THEN "ProducerQueueIsFull"
         ELSE IF ~MemoryFree(w, size) THEN "MemoryBufferIsFull"
         ELSE "Ok"

\* what canEnqueueRequest leaves behind: in blocking mode the permit is taken
\* before reserveMemory is called and stays taken when reserveMemory fails
canEnqueueRequest(w, size) ==
    IF canEnqueueResult(w, size) = "Ok"
    THEN [w EXCEPT !.semaphore = @ + 1, !.memory = @ + size]
    ELSE IF conf.blockIfQueueFull /\ ~w.semaphoreClosed
    THEN [w EXCEPT !.semaphore = @ + 1]
    ELSE w

\* ProducerImpl::sendMessage
sendMessage(w, op) ==
    LET w1 == [w EXCEPT !.pendingMessagesQueue = Append(@, op)]
    IN IF w.connection # 0 THEN cnxSendMessage(w1, w.connection, op) ELSE w1

\* batchMessageAndSend followed by failures.complete()
batchMessageAndSend(w) ==
    LET w1 == [w EXCEPT !.batchTimer = "idle"]
    IN IF w.batchMessageContainer = <<>> THEN w1
       ELSE LET op == createOpSendMsg(w)
                w2 == [w1 EXCEPT !.batchMessageContainer = <<>>]
            IN IF op.result = "Ok" THEN sendMessage(w2, op)
               ELSE uncaught(complete(releaseSemaphoreForSendOp(w2, op), op, op.result))

\* The caller's callback runs; the call itself has nothing left to do.
callback(w, m, result) ==
    [w EXCEPT !.cbLog = Append(@, [m |-> m, r |-> result]),
              !.msg[m].phase = "done", !.msg[m].kind = PlainMsg]

\* the lambda handleFailedResult of sendAsyncWithStatsUpdate
handleFailedResult(w, m, result) ==
    callback(releaseSemaphore(w, w.msg[m].kind.size), m, result)

\* sendAsync up to isValidProducerState
sendAsyncCheck(w, m, kind) ==
    LET w1 == [w EXCEPT !.msg[m].kind = kind]
    IN IF isValidProducerState(w.state) = "Ok" THEN [w1 EXCEPT !.msg[m].phase = "checked"]
       ELSE callback(w1, m, isValidProducerState(w.state))

\* sendAsync from canEnqueueRequest to the point where it takes mutex_
sendAsyncAdmit(w, m) ==
    LET size == w.msg[m].kind.size
        result == canEnqueueResult(w, size)
    IN IF result # "Ok"
       THEN LET w1 == canEnqueueRequest(w, size)
            IN callback(IF conf.batching THEN batchMessageAndSend(w1) ELSE w1, m, result)
       ELSE IF w.msg[m].kind.named
            THEN handleFailedResult(canEnqueueRequest(w, size), m, "InvalidMessage")
            ELSE [canEnqueueRequest(w, size) EXCEPT !.msg[m].phase = "admitted"]

\* The op of one chunk (or of the whole message).
chunkOp(m, seq, size, chunkId, totalChunks, beginIndex, endIndex) ==
    [id |-> OpId(m, chunkId), seq |-> seq, cnt |-> 1, size |-> size,
     cbs |-> IF chunkId = totalChunks - 1 THEN <<m>> ELSE <<>>,
     chunkId |-> chunkId, numChunks |-> IF totalChunks > 1 THEN totalChunks ELSE 0,
     beginIndex |-> beginIndex, endIndex |-> endIndex, trk |-> 0, result |-> "Ok"]

\* The loop over the chunks at the end of sendAsyncWithStatsUpdate; cryptoFail is
\* the chunk encryptMessage fails on (-1: none).
RECURSIVE sendChunks(_, _, _, _, _, _)
sendChunks(w, m, chunkId, totalChunks, beginIndex, cryptoFail) ==
    LET kind == w.msg[m].kind
        payloadChunkSize == IF totalChunks = 1 THEN w.maxMessageSize
                            ELSE w.maxMessageSize - MetadataSize
        endIndex == IF kind.size < beginIndex + payloadChunkSize THEN kind.size
                    ELSE beginIndex + payloadChunkSize
        op == chunkOp(m, w.msg[m].seq, kind.size, chunkId, totalChunks, beginIndex, endIndex)
    IN IF chunkId >= totalChunks
       THEN [w EXCEPT !.msg[m].phase = "queued", !.msg[m].kind = PlainMsg]
       ELSE IF chunkId = cryptoFail THEN handleFailedResult(w, m, "CryptoError")
       ELSE IF ~conf.chunking /\ MetadataSize + (endIndex - beginIndex) > w.maxMessageSize
            THEN handleFailedResult(releaseSemaphoreForSendOp(w, op), m, "MessageTooBig")
       ELSE sendChunks(sendMessage(w, op), m, chunkId + 1, totalChunks, endIndex, cryptoFail)

\* sendAsync once the permits of all chunks are held: batch or enqueue
sendAsyncEnqueue(w, m, totalChunks, cryptoFail) ==
    LET kind == w.msg[m].kind
    IN IF canAddToBatch(kind)
       THEN LET w1 == IF Len(w.batchMessageContainer) >= BatchingMaxMessages
                      THEN batchMessageAndSend(w) ELSE w
                isFirstMessage == w1.batchMessageContainer = <<>>
                w2 == [w1 EXCEPT !.batchMessageContainer =
                                     Append(@, [m |-> m, seq |-> w.msg[m].seq,
                                                size |-> kind.size]),
                                 !.batchTimer = IF isFirstMessage THEN "armed" ELSE @,
                                 !.msg[m].phase = "queued", !.msg[m].kind = PlainMsg]
            IN IF Len(w2.batchMessageContainer) >= BatchingMaxMessages
               THEN batchMessageAndSend(w2) ELSE w2
       ELSE sendChunks(w, m, 0, totalChunks, 0, cryptoFail)

\* The chunks of message m, as computed under mutex_ (0: metadata too large).
totalChunksOf(w, m) ==
    IF canAddToBatch(w.msg[m].kind) \/ ~conf.chunking THEN 1
    ELSE IF MetadataSize >= w.maxMessageSize THEN 0
    ELSE getNumOfChunks(w.msg[m].kind.size, w.maxMessageSize - MetadataSize)

\* The loop that takes one more permit per further chunk, from the i-th on.
RECURSIVE acquireChunkPermits(_, _, _, _)
acquireChunkPermits(w, m, need, cryptoFail) ==
    IF need = 0
    THEN sendAsyncEnqueue([w EXCEPT !.mutexHolder = 0, !.msg[m].need = 0], m,
                          totalChunksOf(w, m), cryptoFail)
    ELSE IF ~canEnqueueReturns(w, 0)
         THEN [w EXCEPT !.mutexHolder = m, !.msg[m].phase = "blocked", !.msg[m].need = need]
    ELSE IF canEnqueueResult(w, 0) # "Ok"
         THEN handleFailedResult([w EXCEPT !.mutexHolder = 0, !.msg[m].need = 0], m,
                                 canEnqueueResult(w, 0))
    ELSE acquireChunkPermits(canEnqueueRequest(w, 0), m, need - 1, cryptoFail)

\* sendAsync from the moment it holds mutex_
sendAsyncLocked(w, m, cryptoFail) ==
    LET kind == w.msg[m].kind
        sequenceId == IF kind.hasSeq THEN kind.seq ELSE w.msgSequenceGenerator
        w1 == [w EXCEPT !.msgSequenceGenerator = IF kind.hasSeq THEN @ ELSE @ + 1,
                        !.msg[m].seq = sequenceId]
    IN IF totalChunksOf(w1, m) = 0 THEN handleFailedResult(w1, m, "MessageTooBig")
       ELSE acquireChunkPermits(w1, m, totalChunksOf(w1, m) - 1, cryptoFail)

\* -------------------------------------------------- ProducerImpl, completions
\* ackReceived: what it returns
ackAccepted(w, sequenceId) ==
    \/ w.pendingMessagesQueue = <<>>
    \/ /\ Head(w.pendingMessagesQueue).result = "Ok"
       /\ sequenceId <= Head(w.pendingMessagesQueue).seq

\* ackReceived taking the acknowledged sequence id for the last published
\* one, whatever the number of messages of the op.
ackReceivedOneMessage(w, sequenceId, rawMessageId) ==
    IF w.pendingMessagesQueue = <<>> THEN w
    ELSE LET op == Head(w.pendingMessagesQueue)
         IN IF IsNull(op) THEN [w EXCEPT !.crashed = TRUE]
            ELSE IF op.result # "Ok" \/ sequenceId # op.seq THEN w
            ELSE [releaseSemaphoreForSendOp(w, op) EXCEPT
                     !.lastSequenceIdPublished = sequenceId,
                     !.pendingMessagesQueue = Tail(@),
                     !.ioDone = Append(@, IoOp(op, "Ok", FALSE, <<rawMessageId>>))]

\* ackReceived up to the unlock; the op is completed after it.  rawMessageId
\* is the id the broker gave to the entry it acknowledges.
ackReceived(w, sequenceId, rawMessageId) ==
    IF w.pendingMessagesQueue = <<>> THEN w
    ELSE LET op == Head(w.pendingMessagesQueue)
             m == MsgOf(op.id)
             w1 == IF op.numChunks = 0 THEN w
                   ELSE IF op.chunkId = 0
                   THEN [w EXCEPT !.chunkedMessageId[m].first = rawMessageId]
                   ELSE IF op.chunkId = op.numChunks - 1
                   THEN [w EXCEPT !.chunkedMessageId[m].last = rawMessageId]
                   ELSE w
             messageId == IF op.numChunks # 0 /\ op.chunkId # 0
                             /\ op.chunkId = op.numChunks - 1
                          THEN <<w1.chunkedMessageId[m].first, w1.chunkedMessageId[m].last>>
                          ELSE <<rawMessageId>>
         IN IF IsNull(op) THEN [w EXCEPT !.crashed = TRUE]
            ELSE IF op.result # "Ok" \/ sequenceId # op.seq THEN w
            ELSE [releaseSemaphoreForSendOp(w1, op) EXCEPT
                     !.lastSequenceIdPublished = sequenceId + op.cnt - 1,
                     !.pendingMessagesQueue = Tail(@),
                     !.ioDone = Append(@, IoOp(op, "Ok", FALSE, messageId))]

\* removeCorruptMessage: what it returns
corruptRemoved(w, sequenceId) ==
    \/ w.pendingMessagesQueue = <<>>
    \/ sequenceId <= Head(w.pendingMessagesQueue).seq

\* removeCorruptMessage up to the unlock.  The head op is taken out of its
\* unique_ptr before the comparison, so when the ids differ it dies with the
\* local variable and a null pointer stays at the head of the queue.
removeCorruptMessage(w, sequenceId) ==
    IF w.pendingMessagesQueue = <<>> THEN w
    ELSE LET op == Head(w.pendingMessagesQueue)
         IN IF IsNull(op) THEN [w EXCEPT !.crashed = TRUE]
            ELSE IF sequenceId # op.seq
            THEN [w EXCEPT !.pendingMessagesQueue = <<NoOp>> \o Tail(@),
                           !.destroyed = @ \cup {op.id}]
            ELSE [w EXCEPT !.pendingMessagesQueue = Tail(@),
                           !.ioDone = Append(@, IoOp(op, "ChecksumError", TRUE, <<>>))]

\* What a connection handler does after it has released the mutex
ioComplete(w, elapsed) ==
    LET d == Head(w.ioDone)
        w0 == [w EXCEPT !.ioDone = Tail(@)]
        got == [id |-> d.messageId, numChunks |-> d.op.numChunks]
        w1 == [caught(complete(w0, d.op, d.r)) EXCEPT
                  !.messageIds = [m \in Msgs |->
                                     IF d.r = "Ok" /\ OwedBy(<<d.op>>, m) THEN got ELSE @[m]]]
    IN IF d.type = "resp" THEN requestListener(w0, d.c, d.req, d.r, d.last, elapsed)
       ELSE IF d.release THEN releaseSemaphoreForSendOp(w1, d.op) ELSE w1

\* handleSendTimeout up to the unlock: err is set when the wait was cancelled
handleSendTimeout(w, err, expired) ==
    LET w0 == [w EXCEPT !.sendTimer = "idle"]
    IN IF w.state \notin {"Pending", "Ready"} THEN (IF err THEN w ELSE w0)
       ELSE IF err THEN w
       ELSE IF w.pendingMessagesQueue = <<>> THEN [w0 EXCEPT !.sendTimer = "armed"]
       ELSE IF IsNull(Head(w.pendingMessagesQueue)) THEN [w EXCEPT !.crashed = TRUE]
       ELSE IF expired
            THEN [getPendingCallbacksWhenFailed(w0) EXCEPT
                     !.timerDone = PendingCallbacks(w), !.sendTimer = "armed"]
            ELSE [w0 EXCEPT !.sendTimer = "armed"]

\* the loop completing the timed-out ops after the unlock
timerComplete(w) ==
    uncaught(completeAll([w EXCEPT !.timerDone = <<>>], w.timerDone, "Timeout"))

\* the handler of batchTimer_: ec is set when the wait was cancelled
handleBatchTimeout(w, ec) ==
    IF ec THEN w
    ELSE IF w.state \in {"Pending", "Ready"} THEN batchMessageAndSend(w)
    ELSE [w EXCEPT !.batchTimer = "idle"]

triggerFlush(w) ==
    IF conf.batching /\ w.state = "Ready" THEN batchMessageAndSend(w) ELSE w

\* flushAsync up to the unlock: the callback is answered at once, or a
\* reference to the tail element of the queue is kept for addTrackerCallback
flushAsync(w) ==
    IF w.state # "Ready"
    THEN [w EXCEPT !.flushLog = Append(@, "AlreadyClosed"), !.flush.pc = "done"]
    ELSE LET w1 == IF conf.batching THEN batchMessageAndSend(w) ELSE w
             q == w1.pendingMessagesQueue
         IN IF q # <<>>
            THEN [w1 EXCEPT !.flush = [pc |-> "register", op |-> q[Len(q)].id]]
            ELSE [w1 EXCEPT !.flushLog = Append(@, "Ok"), !.flush.pc = "done"]

InQueue(w, id) == \E i \in 1..Len(w.pendingMessagesQueue) : w.pendingMessagesQueue[i].id = id
InTimerDone(w, id) == \E i \in 1..Len(w.timerDone) : w.timerDone[i].id = id

\* opSendMsg->addTrackerCallback(callback) after the unlock.  The reference is
\* good while the list element exists (in the queue, or in the list a timeout
\* swapped it into); once the element was popped it dangles, and the callback
\* is lost (lost) or the process dies.
flushRegister(w, lost) ==
    LET id == w.flush.op
        w1 == [w EXCEPT !.flush.pc = "done"]
        Track(q) == [i \in 1..Len(q) |-> IF q[i].id = id THEN [q[i] EXCEPT !.trk = @ + 1]
                                          ELSE q[i]]
    IN IF id # 0 /\ InQueue(w, id)
       THEN [w1 EXCEPT !.pendingMessagesQueue = Track(@)]
       ELSE IF id # 0 /\ InTimerDone(w, id)
       THEN [w1 EXCEPT !.timerDone = Track(@)]
       ELSE IF lost THEN w1 ELSE [w EXCEPT !.crashed = TRUE]

closeAsync(w) ==
    LET w0 == [w EXCEPT !.closeAsyncCalls = @ + 1]
    IN IF w.state = "NotStarted" THEN closeCallback([w0 EXCEPT !.state = "Closed"], "Ok")
       ELSE LET w1 == failPendingMessages([cancelTimers(w0) EXCEPT !.semaphoreClosed = TRUE],
                                          "AlreadyClosed")
            IN IF w1.crashed THEN w1
               ELSE IF w1.state \notin {"Ready", "Pending"}
               THEN closeCallback(w1, "AlreadyClosed")
               ELSE IF w1.connection = 0
               THEN closeCallback([w1 EXCEPT !.state = "Closing"], "Ok")
               ELSE LET c == w1.connection
                        w2 == [resetCnx(w1) EXCEPT !.state = "Closing"]
                    IN IF w2.cnxState[c] = "Disconnected"
                       THEN closeCallback(w2, "NotConnected")
                       ELSE sendCommand([w2 EXCEPT !.pendingRequests[c] =
                                                       @ \cup {Request("close")}],
                                        c, Command("CLOSE_PRODUCER", 0))

\* --------------------------------------------------------- ClientConnection
\* The registries ClientConnection::close moves out: pendingGetSchemaRequests_
\* is not among them.
MovedOut(w, c) == {k \in Registries \ {"getSchema"} : w.registries[c][k].in}

\* What a call of close has to deliver after the unlock.
Closing(w, c, result) ==
    [result |-> result, handlers |-> w.cnxProducers[c], requests |-> w.pendingRequests[c],
     promises |-> MovedOut(w, c)]

\* A close that moves the registries out again although the connection is
\* already Disconnected.
closeUnguarded(w, c, result) ==
    [w EXCEPT !.cnxState[c] = "Disconnected",
              !.closing[c] = Append(@, Closing(w, c, result)),
              !.cnxProducers[c] = {},
              !.pendingRequests[c] = {},
              !.registries[c] = [k \in Registries |->
                                    IF k \in MovedOut(w, c) THEN [@[k] EXCEPT !.in = FALSE]
                                    ELSE @[k]],
              !.numOfPendingLookupRequest[c] = 0,
              !.frameReceived[c] = FALSE,
              !.keepAliveTimer[c] = "none",
              !.frames[c] = <<>>, !.cursor[c] = 0, !.socket[c] = <<>>, !.accepted[c] = <<>>]

\* ClientConnection::close(result) up to the unlock
close(w, c, result) ==
    IF w.cnxState[c] = "Disconnected" THEN w
    ELSE [w EXCEPT !.cnxState[c] = "Disconnected",
                   !.closing[c] = Append(@, Closing(w, c, result)),
                   !.cnxProducers[c] = {},
                   !.pendingRequests[c] = {},
                   !.registries[c] = [k \in Registries |->
                                         IF k \in MovedOut(w, c) THEN [@[k] EXCEPT !.in = FALSE]
                                         ELSE @[k]],
                   !.numOfPendingLookupRequest[c] = 0,
                   !.frameReceived[c] = FALSE,
                   !.keepAliveTimer[c] = "none",
                   \* closeSocket()
                   !.frames[c] = <<>>, !.cursor[c] = 0, !.socket[c] = <<>>, !.accepted[c] = <<>>]

\* handleTcpConnected with the outcome err of async_connect on the last
\* endpoint; without error, handleHandshake writes CONNECT and the read of the
\* broker's first frame is scheduled.
handleTcpConnected(w, c, err) ==
    LET w1 == [w EXCEPT !.handshake[c] = "done"]
    IN IF err = "endpoint" THEN close(w1, c, "Retryable")
       ELSE IF err = "operation_aborted" THEN close(w1, c, "ConnectError")
       ELSE IF err # "success" THEN close(w1, c, "Retryable")
       ELSE IF w.cnxState[c] = "Disconnected" THEN w1
       ELSE [w EXCEPT !.cnxState[c] = "TcpConnected", !.handshake[c] = "connected"]

\* A handlePulsarConnected that does not look whether the connection was closed.
handlePulsarConnectedUnchecked(w, c, hasServerVersion, size) ==
    IF ~hasServerVersion THEN close(w, c, "ConnectError")
    ELSE [w EXCEPT !.maxMessageSize = size,
                   !.cnxState[c] = "Ready",
                   !.keepAliveTimer[c] = "armed",
                   !.connectPromise[c] = IF @ = "Pending" THEN "Ok" ELSE @]

\* handlePulsarConnected: the broker's max_message_size is stored, the
\* connection becomes Ready unless it was closed, the keep-alive timer is armed
\* (the broker speaks v1 or later), connectPromise_ gets its value.
handlePulsarConnected(w, c, hasServerVersion, size) ==
    IF ~hasServerVersion THEN close(w, c, "ConnectError")
    ELSE LET w1 == [w EXCEPT !.maxMessageSize = size]
         IN IF w.cnxState[c] = "Disconnected" THEN w1
            ELSE [w1 EXCEPT !.cnxState[c] = "Ready",
                            !.keepAliveTimer[c] = "armed",
                            !.connectPromise[c] = IF @ = "Pending" THEN "Ok" ELSE @]

\* handleIncomingCommand for the first frame the broker sends; seen is the
\* state_ the switch loaded.
handleIncomingCommand(w, c, seen, cmd, hasServerVersion, size) ==
    LET w1 == [w EXCEPT !.handshake[c] = "done"]
    IN IF seen = "TcpConnected"
       THEN IF cmd # "CONNECTED" THEN close(w1, c, "ConnectError")
            ELSE handlePulsarConnected(w1, c, hasServerVersion, size)
       ELSE w1

\* handleIncomingCommand in state Ready, before the command is dispatched
commandInReady(w, c) ==
    [w EXCEPT !.havePendingPingRequest[c] = FALSE,
              !.frameReceived[c] = IF Fault("keepAlive") THEN TRUE ELSE @]

\* processIncomingBuffer for a MESSAGE frame: the frame goes to
\* handleIncomingMessage, which hands it to the consumer, and not to
\* handleIncomingCommand
handleIncomingMessage(w, c) ==
    [w EXCEPT !.frameReceived[c] = IF Fault("keepAlive") THEN TRUE ELSE @]

\* handleSend / handleSendPair: the write in flight has completed
handleSend(w, c, err) ==
    IF err THEN close(w, c, "ConnectError") ELSE sendPendingCommands(w, c)

\* handleAuthChallenge: AUTH_RESPONSE goes to asyncWrite at once, whatever
\* pendingWriteOperations_ is; ok is whether newAuthResponse could build it
handleAuthChallenge(w, c, ok) ==
    IF ~ok THEN close(w, c, "AuthenticationError")
    ELSE [w EXCEPT !.authResponseWrites[c] = @ + 1]

\* handleSentAuthResponse: that write has completed
handleSentAuthResponse(w, c, err) ==
    LET w1 == [w EXCEPT !.authResponseWrites[c] = @ - 1]
    IN IF err THEN close(w1, c, "ConnectError") ELSE w1

handleKeepAliveTimeout(w, c) ==
    IF w.cnxState[c] = "Disconnected" THEN w
    ELSE IF w.havePendingPingRequest[c] THEN close(w, c, "ConnectError")
    ELSE LET w1 == sendCommand([w EXCEPT !.havePendingPingRequest[c] = TRUE,
                                         !.frameReceived[c] = FALSE], c,
                               Command("PING", 0))
         IN [w1 EXCEPT !.keepAliveTimer[c] = IF @ = "none" THEN @ ELSE "armed"]

\* newLookup, newConsumerStats, newGetLastMessageId, newGetTopicsOfNamespace and
\* newGetSchema for registry k.  On a closed connection the promise fails with
\* NotConnected; newConsumerStats then goes on, inserts the promise and unlocks
\* the lock a second time, which throws before the command is sent.
newRequest(w, c, k) ==
    IF w.cnxState[c] = "Disconnected"
    THEN [w EXCEPT !.registries[c][k] =
                       [in |-> (k = "consumerStats"), promise |-> "NotConnected"]]
    ELSE IF k \in LookupKinds /\ w.numOfPendingLookupRequest[c] >= ConcurrentLookupRequest
    THEN [w EXCEPT !.registries[c][k] =
                       [in |-> FALSE, promise |-> "TooManyLookupRequestException"]]
    ELSE sendCommand([w EXCEPT !.registries[c][k] = [in |-> TRUE, promise |-> "Pending"],
                               !.numOfPendingLookupRequest[c] =
                                   IF k \in LookupKinds THEN @ + 1 ELSE @],
                     c, Command(k, 0))

\* handleLookupTimeout and handleGetLastMessageIdTimeout: unless the wait was
\* cancelled (ec) the promise fails with Timeout; the entry and the counter stay
handleLookupTimeout(w, ec, c, k) ==
    IF ec THEN w
    ELSE [w EXCEPT !.registries[c][k].promise = IF @ = "Pending" THEN "Timeout" ELSE @]

\* handleLookupTopicRespose, handleConsumerStatsResponse,
\* handleGetLastMessageIdResponse, handleGetTopicOfNamespaceResponse and
\* handleGetSchemaResponse: the entry is erased and its promise completed.
handleResponse(w, c, k, result) ==
    IF ~w.registries[c][k].in THEN w
    ELSE [w EXCEPT !.registries[c][k] =
                       [in |-> FALSE, promise |-> IF @.promise = "Pending" THEN result
                                                  ELSE @.promise],
                   !.numOfPendingLookupRequest[c] = IF k \in LookupKinds THEN @ - 1 ELSE @]

\* the static HandlerBase::handleDisconnection, delivered to handler h
deliverDisconnection(w, c, h, result) ==
    LET w1 == [w EXCEPT !.disconnections[c][h] = @ + 1]
    IN IF h = TheProducer THEN handleDisconnection(w1, result, c) ELSE w1

RECURSIVE failRequests(_, _, _, _, _)
failRequests(w, c, reqs, result, elapsed) ==
    IF reqs = {} \/ w.crashed THEN w
    ELSE LET Rank(r) == IF r.kind = "create" THEN 0 ELSE IF r.kind = "close" THEN 1 ELSE 2
             req == CHOOSE r \in reqs : \A o \in reqs : Rank(r) <= Rank(o)
         IN failRequests(requestListener(w, c, req, result, -1, elapsed), c, reqs \ {req},
                         result, elapsed)

\* ClientConnection::close(result) after the unlock
closeNotify(w, c, elapsed) ==
    LET b == Head(w.closing[c])
        w0 == [w EXCEPT !.closing[c] = Tail(@)]
        w1 == IF TheProducer \in b.handlers
              THEN deliverDisconnection(w0, c, TheProducer, b.result) ELSE w0
        w2 == IF TheConsumer \in b.handlers
              THEN deliverDisconnection(w1, c, TheConsumer, b.result) ELSE w1
        w3 == [w2 EXCEPT !.connectPromise[c] = IF @ = "Pending" THEN b.result ELSE @]
        w4 == failRequests(w3, c, b.requests, b.result, elapsed)
    IN IF w4.crashed THEN w4
       ELSE [w4 EXCEPT !.registries[c] =
                [k \in Registries |->
                    IF k \in b.promises /\ @[k].promise = "Pending"
                    THEN [@[k] EXCEPT !.promise = b.result] ELSE @[k]]]

handleSendReceipt(w, c, sequenceId, messageId) ==
    IF TheProducer \notin w.cnxProducers[c] THEN w
    ELSE IF ackAccepted(w, sequenceId) THEN ackReceived(w, sequenceId, messageId)
    ELSE LET w1 == ackReceived(w, sequenceId, messageId)
         IN IF w1.crashed THEN w1 ELSE close(w1, c, "ConnectError")

handleSendError(w, c, sequenceId, error) ==
    IF error # "ChecksumError" THEN close(w, c, "ConnectError")
    ELSE IF TheProducer \notin w.cnxProducers[c] THEN w
    ELSE LET w1 == removeCorruptMessage(w, sequenceId)
         IN IF w1.crashed \/ corruptRemoved(w, sequenceId) THEN w1
            ELSE close(w1, c, "ConnectError")

\* handleProducerSuccess, handleSuccess and handleError up to the unlock
handleProducerSuccess(w, c, req, ready, lastSequenceId) ==
    IF req \notin w.pendingRequests[c] THEN w
    ELSE IF ~ready
    THEN [w EXCEPT !.pendingRequests[c] = (@ \ {req}) \cup {[req EXCEPT !.got = TRUE]}]
    ELSE [w EXCEPT !.pendingRequests[c] = @ \ {req},
                   !.ioDone = Append(@, IoResp(c, req, "Ok", lastSequenceId))]

handleSuccess(w, c, req) ==
    IF req \notin w.pendingRequests[c] THEN w
    ELSE [w EXCEPT !.pendingRequests[c] = @ \ {req},
                   !.ioDone = Append(@, IoResp(c, req, "Ok", -1))]

handleError(w, c, req, result) ==
    IF req \notin w.pendingRequests[c] THEN w
    ELSE [w EXCEPT !.pendingRequests[c] = @ \ {req},
                   !.ioDone = Append(@, IoResp(c, req, result, -1))]

\* A handleRequestTimeout that does not look at hasGotResponse.
handleRequestTimeoutAnyway(w, ec, c, req, elapsed) ==
    IF ec THEN w ELSE
    [requestListener(w, c, req, "Timeout", -1, elapsed) EXCEPT
        !.pendingRequests[c] = (@ \ {req}) \cup
            (IF req \in w.pendingRequests[c]
             THEN {[req EXCEPT !.fired = TRUE, !.done = TRUE]} ELSE {})]

\* handleRequestTimeout: nothing when the wait was cancelled (ec); else the
\* promise fails unless an interim response was seen, the entry stays
handleRequestTimeout(w, ec, c, req, elapsed) ==
    IF ec THEN w
    ELSE IF req.got
    THEN [w EXCEPT !.pendingRequests[c] = (@ \ {req}) \cup
                      (IF req \in w.pendingRequests[c]
                       THEN {[req EXCEPT !.fired = TRUE]} ELSE {})]
    ELSE [requestListener(w, c, req, "Timeout", -1, elapsed) EXCEPT
             !.pendingRequests[c] = (@ \ {req}) \cup
                 (IF req \in w.pendingRequests[c]
                  THEN {[req EXCEPT !.fired = TRUE, !.done = TRUE]} ELSE {})]

handleCloseProducer(w, c) ==
    IF TheProducer \notin w.cnxProducers[c] THEN w
    ELSE disconnectProducer([w EXCEPT !.cnxProducers[c] = @ \ {TheProducer}])

registerConsumer(w, c) == [w EXCEPT !.cnxProducers[c] = @ \cup {TheConsumer}]

\* ------------------------------------------------------------------ inputs
ConnectResults == {"Retryable", "ConnectError"}
ConnectErrors ==
    IF Fault("connect") THEN {"success", "endpoint", "operation_aborted", "connection_refused"}
    ELSE {"success"}
FirstCommands == IF Fault("badFrame") THEN {"CONNECTED", "PONG"} ELSE {"CONNECTED"}
ServerVersions == IF Fault("badFrame") THEN BOOLEAN ELSE {TRUE}
WriteErrors == IF Fault("disconnect") THEN BOOLEAN ELSE {FALSE}
Requested ==
    Cardinality({p \in Cnxs \X Registries : registries[p[1]][p[2]].promise # "none"})
CloseResults == {"Retryable", "ConnectError"}
CreateErrors == {"Retryable", "ProducerFenced", "ProducerBlockedQuotaExceededException",
                 "AuthenticationError"}
LastSequenceIds == IF Fault("lastSeq") THEN {-1, 1} ELSE {-1}
MaxMessageSizes ==
    IF Fault("maxSize") THEN {DefaultMaxMessageSize, MetadataSize} ELSE {DefaultMaxMessageSize}
CryptoFails == IF conf.encryption THEN {-1, 0, 1} ELSE {-1}
Deadline == IF Fault("deadline") THEN BOOLEAN ELSE {FALSE}
Expired == IF Fault("sendTimeout") THEN BOOLEAN ELSE {FALSE}
Picks == getConnection(World) \ (IF Fault("lookup") THEN {} ELSE {0})

\* ----------------------------------------------------------------- actions
\* the caller's threads
Start ==
    /\ ~crashed /\ state = "NotStarted"
    /\ \E pick \in Picks : Set(start(World, pick))

SendAsyncCheck(m) ==
    /\ ~crashed /\ msg[m].phase = "new" /\ m <= env.calls
    /\ \A n \in Msgs : n < m => msg[n].phase \in {"queued", "done"}
    /\ \E kind \in MsgKinds(conf) : Set(sendAsyncCheck(World, m, kind))

SendAsyncAdmit(m) ==
    /\ ~crashed /\ msg[m].phase = "checked"
    /\ canEnqueueReturns(World, msg[m].kind.size)
    /\ mutexHolder = 0 \/ ~conf.batching \/ canEnqueueResult(World, msg[m].kind.size) = "Ok"
    /\ Set(sendAsyncAdmit(World, m))

SendAsyncLocked(m) ==
    /\ ~crashed /\ msg[m].phase = "admitted" /\ mutexHolder = 0
    /\ \E cryptoFail \in CryptoFails : Set(sendAsyncLocked(World, m, cryptoFail))

SendAsyncResume(m) ==
    /\ ~crashed /\ msg[m].phase = "blocked" /\ mutexHolder = m
    /\ canEnqueueReturns(World, 0)
    /\ \E cryptoFail \in CryptoFails :
           Set(acquireChunkPermits(World, m, msg[m].need, cryptoFail))

FlushAsync ==
    /\ ~crashed /\ "flush" \in env.app /\ flush.pc = "idle" /\ mutexHolder = 0
    /\ Set(flushAsync(World))

FlushRegister ==
    /\ ~crashed /\ flush.pc = "register"
    /\ \E lost \in BOOLEAN : Set(flushRegister(World, lost))

TriggerFlush ==
    /\ ~crashed /\ "flush" \in env.app /\ mutexHolder = 0 /\ batchMessageContainer # <<>>
    /\ Set(triggerFlush(World))

CloseAsync ==
    /\ ~crashed /\ "close" \in env.app /\ closeAsyncCalls < MaxCloseAsyncCalls
    /\ state = "NotStarted" \/ mutexHolder = 0
    /\ Set(closeAsync(World))

\* the producer's timers
HandleTimeout ==
    /\ ~crashed /\ timer = "armed" /\ epoch < MaxEpoch /\ timerDone = <<>>
    /\ \E pick \in Picks : Set(handleTimeout(World, FALSE, pick))

HandleSendTimeout ==
    /\ ~crashed /\ sendTimer = "armed" /\ timerDone = <<>>
    /\ state \notin {"Pending", "Ready"} \/ mutexHolder = 0
    /\ \E expired \in Expired : Set(handleSendTimeout(World, FALSE, expired))

HandleBatchTimeout ==
    /\ ~crashed /\ batchTimer = "armed" /\ timerDone = <<>> /\ mutexHolder = 0
    /\ Set(handleBatchTimeout(World, FALSE))

\* The handlers of waits that were cancelled (expires_from_now on a timer that
\* is waiting, cancel(), or the executor going away): the reconnection timer,
\* the send timer and the batch timer get operation_aborted
HandleTimeoutAborted ==
    /\ ~crashed /\ Fault("aborted") /\ state # "NotStarted" /\ epoch < MaxEpoch
    /\ timerDone = <<>>
    /\ \E pick \in Picks : Set(handleTimeout(World, TRUE, pick))

HandleSendTimeoutAborted ==
    /\ ~crashed /\ Fault("aborted") /\ state # "NotStarted" /\ conf.sendTimeout > 0
    /\ timerDone = <<>>
    /\ state \notin {"Pending", "Ready"} \/ mutexHolder = 0
    /\ \E expired \in Expired : Set(handleSendTimeout(World, TRUE, expired))

HandleBatchTimeoutAborted ==
    /\ ~crashed /\ Fault("aborted") /\ state # "NotStarted" /\ conf.batching
    /\ timerDone = <<>>
    /\ mutexHolder = 0
    /\ Set(handleBatchTimeout(World, TRUE))

TimerComplete ==
    /\ ~crashed /\ timerDone # <<>>
    /\ Set(timerComplete(World))

\* the future of getConnection resolves
HandleNewConnection ==
    /\ ~crashed /\ cnxRequest >= 0 /\ mutexHolder = 0
    /\ \E elapsed \in Deadline :
          \/ /\ cnxRequest = 0
             /\ \E result \in ConnectResults :
                    Set(handleNewConnection(World, result, 0, elapsed))
          \/ /\ cnxRequest > 0 /\ connectPromise[cnxRequest] = "Ok"
             /\ Set(handleNewConnection(World, "Ok", cnxRequest, elapsed))
          \/ /\ cnxRequest > 0 /\ connectPromise[cnxRequest] = "Ok"
             /\ cnxState[cnxRequest] = "Disconnected" /\ closing[cnxRequest] = <<>>
             /\ Set(handleNewConnection(World, "Ok", 0, elapsed))
          \/ /\ cnxRequest > 0 /\ connectPromise[cnxRequest] \notin {"Ok", "Pending"}
             /\ Set(handleNewConnection(World, connectPromise[cnxRequest], 0, elapsed))

ConnectionFailedStore ==
    /\ ~crashed /\ failing
    /\ Set(connectionFailedStore(World))

HandleCreateProducerReady ==
    /\ ~crashed /\ mutexHolder = Creator
    /\ Set(handleCreateProducerReady(World))

\* the client shuts the producer down
Shutdown ==
    /\ ~crashed /\ "shutdown" \in env.app
    /\ Set(shutdown(World))

\* the client closes its memory limit controller (the first thing it does when
\* it is closed); blocked reserveMemory calls return false
CloseMemoryLimitController ==
    /\ ~crashed /\ "clientClose" \in env.app /\ ~memoryClosed
    /\ Set([World EXCEPT !.memoryClosed = TRUE])

\* the connections
HandleTcpConnected(c) ==
    /\ ~crashed /\ handshake[c] = "connect"
    /\ \E err \in ConnectErrors : Set(handleTcpConnected(World, c, err))

\* the first frame of the broker arrives; a close may have run between the
\* load of state_ and the lock
HandlePulsarConnected(c) ==
    /\ ~crashed /\ handshake[c] = "connected"
    /\ \E seen \in {cnxState[c], "TcpConnected"} :
       \E cmd \in FirstCommands :
       \E hasServerVersion \in ServerVersions :
       \E size \in MaxMessageSizes :
           Set(handleIncomingCommand(World, c, seen, cmd, hasServerVersion, size))

\* the write in flight on connection c completes
HandleSend(c) ==
    /\ ~crashed /\ Fault("slowWrites")
    /\ cnxState[c] = "Ready" /\ pendingWriteOperations[c] > 0
    /\ \E err \in WriteErrors : Set(handleSend(World, c, err))

HandleKeepAliveTimeout(c) ==
    /\ ~crashed /\ Fault("keepAlive") /\ keepAliveTimer[c] = "armed"
    /\ havePendingPingRequest[c] \/ Len(accepted[c]) < MaxCommands
    /\ Set(handleKeepAliveTimeout(World, c))

\* the broker asks connection c to authenticate again
HandleAuthChallenge(c) ==
    /\ ~crashed /\ Fault("authChallenge") /\ cnxState[c] = "Ready"
    /\ authResponseWrites[c] < MaxAuthResponseWrites
    /\ \E ok \in BOOLEAN : Set(handleAuthChallenge(commandInReady(World, c), c, ok))

\* a write of AUTH_RESPONSE completes; on a closed socket it fails
HandleSentAuthResponse(c) ==
    /\ ~crashed /\ authResponseWrites[c] > 0
    /\ \E err \in (IF cnxState[c] = "Disconnected" THEN {TRUE} ELSE BOOLEAN) :
           Set(handleSentAuthResponse(World, c, err))

\* the broker pushes a message to the consumer attached to connection c
HandleIncomingMessage(c) ==
    /\ ~crashed /\ Fault("keepAlive") /\ cnxState[c] = "Ready"
    /\ TheConsumer \in cnxProducers[c]
    /\ Set(handleIncomingMessage(World, c))

\* the broker answers PING
HandlePong(c) ==
    /\ ~crashed /\ cnxState[c] = "Ready" /\ havePendingPingRequest[c]
    /\ Set(commandInReady(World, c))

\* the application asks connection c for something
NewRequest(c) ==
    /\ ~crashed /\ "requests" \in env.app
    /\ connectPromise[c] = "Ok"
    /\ Requested < MaxRequests
    /\ \E k \in Registries :
          /\ registries[c][k].promise = "none"
          /\ Set(newRequest(World, c, k))

\* the broker answers it
HandleResponse(c) ==
    /\ ~crashed /\ cnxState[c] = "Ready"
    /\ \E k \in Registries :
          /\ registries[c][k].in
          /\ Set(handleResponse(commandInReady(World, c), c, k, "Ok"))

\* the deadline of a lookup or of a get-last-message-id request passes, or the
\* wait for it was cancelled
HandleLookupTimeout(c) ==
    /\ ~crashed /\ Fault("lookupTimeout")
    /\ \E k \in LookupKinds \cup {"getLastMessageId"} :
          /\ registries[c][k].promise \notin {"none", "NotConnected",
                                              "TooManyLookupRequestException"}
          /\ \E ec \in BOOLEAN :
                /\ ec \/ registries[c][k].promise = "Pending"
                /\ Set(handleLookupTimeout(World, ec, c, k))

Close(c) ==
    /\ ~crashed /\ Fault("disconnect") /\ cnxState[c] # "None"
    /\ \E result \in CloseResults : Set(close(World, c, result))

CloseNotify(c) ==
    /\ ~crashed /\ closing[c] # <<>> /\ mutexHolder = 0
    /\ \E elapsed \in Deadline : Set(closeNotify(World, c, elapsed))

RegisterConsumer(c) ==
    /\ ~crashed /\ "consumer" \in env.app
    /\ cnxState[c] = "Ready" /\ TheConsumer \notin cnxProducers[c]
    /\ disconnections[c][TheConsumer] = 0
    /\ Set(registerConsumer(World, c))

\* the broker answers the next SEND frame of connection c
HandleSendReceipt(c) ==
    /\ ~crashed /\ cnxState[c] = "Ready" /\ ioDone = <<>> /\ mutexHolder = 0
    /\ cursor[c] < Len(frames[c])
    /\ Set(handleSendReceipt([commandInReady(World, c) EXCEPT !.cursor[c] = @ + 1], c,
                             frames[c][cursor[c] + 1].seq, frames[c][cursor[c] + 1].id))

HandleSendError(c) ==
    /\ ~crashed /\ Fault("sendError") /\ cnxState[c] = "Ready" /\ ioDone = <<>> /\ mutexHolder = 0
    /\ cursor[c] < Len(frames[c])
    /\ \E error \in {"ChecksumError", "PersistenceError"} :
           Set(handleSendError([commandInReady(World, c) EXCEPT !.cursor[c] = @ + 1], c,
                               frames[c][cursor[c] + 1].seq, error))

\* the broker answers a request of connection c
HandleProducerSuccess(c) ==
    /\ ~crashed /\ cnxState[c] = "Ready" /\ ioDone = <<>>
    /\ \E req \in pendingRequests[c] :
          /\ req.kind = "create"
          /\ \E ready \in IF req.got \/ ~Fault("notReady") THEN {TRUE} ELSE BOOLEAN :
             \E lastSequenceId \in IF ready THEN LastSequenceIds ELSE {-1} :
                 Set(handleProducerSuccess(commandInReady(World, c), c, req, ready,
                                           lastSequenceId))

HandleSuccess(c) ==
    /\ ~crashed /\ cnxState[c] = "Ready" /\ ioDone = <<>>
    /\ \E req \in pendingRequests[c] :
          /\ req.kind # "create"
          /\ Set(handleSuccess(commandInReady(World, c), c, req))

HandleError(c) ==
    /\ ~crashed /\ cnxState[c] = "Ready" /\ ioDone = <<>>
    /\ \E req \in pendingRequests[c] :
          /\ Fault(IF req.kind = "create" THEN "createError" ELSE "closeError")
          /\ \E result \in IF req.kind = "create" THEN CreateErrors ELSE {"UnknownError"} :
                 Set(handleError(commandInReady(World, c), c, req, result))

HandleRequestTimeout(c) ==
    /\ ~crashed /\ Fault("requestTimeout") /\ ioDone = <<>> /\ mutexHolder = 0
    /\ \E req \in pendingRequests[c] :
          /\ ~req.fired
          /\ \E elapsed \in Deadline : Set(handleRequestTimeout(World, FALSE, c, req, elapsed))

\* the deadline timer of a request was cancelled by the response, the ERROR or
\* the close that took the request out
HandleRequestTimeoutAborted(c) ==
    /\ ~crashed /\ Fault("aborted") /\ ioDone = <<>> /\ mutexHolder = 0
    /\ cnxState[c] # "None"
    /\ \E req \in pendingRequests[c] \cup {Request("create"), Request("close")} :
          \E elapsed \in Deadline : Set(handleRequestTimeout(World, TRUE, c, req, elapsed))

\* close() cancelled the keep-alive timer: its handler, bound without the error
\* code, runs on the closed connection
HandleKeepAliveTimeoutAborted(c) ==
    /\ ~crashed /\ Fault("aborted") /\ cnxState[c] = "Disconnected"
    /\ keepAliveTimer[c] = "none" /\ connectPromise[c] = "Ok"
    /\ Set(handleKeepAliveTimeout(World, c))

HandleCloseProducer(c) ==
    /\ ~crashed /\ Fault("closeProducer") /\ cnxState[c] = "Ready" /\ ioDone = <<>>
    /\ TheProducer \in cnxProducers[c]
    /\ Set(handleCloseProducer(commandInReady(World, c), c))

IoComplete ==
    /\ ~crashed /\ ioDone # <<>>
    /\ mutexHolder = 0 \/ Head(ioDone).type = "op"
    /\ \E elapsed \in Deadline : Set(ioComplete(World, elapsed))

Next ==
    \/ Start
    \/ \E m \in Msgs : SendAsyncCheck(m)
    \/ \E m \in Msgs : SendAsyncAdmit(m)
    \/ \E m \in Msgs : SendAsyncLocked(m)
    \/ \E m \in Msgs : SendAsyncResume(m)
    \/ FlushAsync
    \/ FlushRegister
    \/ TriggerFlush
    \/ CloseAsync
    \/ HandleTimeout
    \/ HandleSendTimeout
    \/ HandleBatchTimeout
    \/ HandleTimeoutAborted
    \/ HandleSendTimeoutAborted
    \/ HandleBatchTimeoutAborted
    \/ \E c \in Cnxs : HandleRequestTimeoutAborted(c)
    \/ \E c \in Cnxs : HandleKeepAliveTimeoutAborted(c)
    \/ TimerComplete
    \/ HandleNewConnection
    \/ ConnectionFailedStore
    \/ HandleCreateProducerReady
    \/ Shutdown
    \/ CloseMemoryLimitController
    \/ \E c \in Cnxs : HandleTcpConnected(c)
    \/ \E c \in Cnxs : HandlePulsarConnected(c)
    \/ \E c \in Cnxs : HandleSend(c)
    \/ \E c \in Cnxs : HandleKeepAliveTimeout(c)
    \/ \E c \in Cnxs : HandlePong(c)
    \/ \E c \in Cnxs : HandleIncomingMessage(c)
    \/ \E c \in Cnxs : HandleAuthChallenge(c)
    \/ \E c \in Cnxs : HandleSentAuthResponse(c)
    \/ \E c \in Cnxs : NewRequest(c)
    \/ \E c \in Cnxs : HandleResponse(c)
    \/ \E c \in Cnxs : HandleLookupTimeout(c)
    \/ \E c \in Cnxs : Close(c)
    \/ \E c \in Cnxs : CloseNotify(c)
    \/ \E c \in Cnxs : RegisterConsumer(c)
    \/ \E c \in Cnxs : HandleSendReceipt(c)
    \/ \E c \in Cnxs : HandleSendError(c)
    \/ \E c \in Cnxs : HandleProducerSuccess(c)
    \/ \E c \in Cnxs : HandleSuccess(c)
    \/ \E c \in Cnxs : HandleError(c)
    \/ \E c \in Cnxs : HandleRequestTimeout(c)
    \/ \E c \in Cnxs : HandleCloseProducer(c)
    \/ IoComplete

Spec == Init /\ [][Next]_vars

\* -------------------------------------------------------------- properties
\* How often the callback of sendAsync call m has run.
Times(m) == Cardinality({i \in 1..Len(cbLog) : cbLog[i].m = m})

\* Call m was accepted and its message sits in the queue, in the batch
\* container, or in an op a handler popped and is about to complete.
Held(m) ==
    \/ OwedBy(pendingMessagesQueue, m)
    \/ \E i \in 1..Len(batchMessageContainer) : batchMessageContainer[i].m = m
    \/ OwedBy([i \in 1..Len(ioDone) |-> ioDone[i].op], m)
    \/ OwedBy(timerDone, m)

Accepted(m) == msg[m].phase = "queued"

\* C1: the callback of every sendAsync call runs exactly once: never twice,
\* and no op leaves pendingMessagesQueue or is destroyed without its callback
\* having run.
C1_CallbackExactlyOnce ==
    /\ destroyed = {}
    /\ \A m \in Msgs : /\ Times(m) <= 1
                       /\ msg[m].phase = "done" => Times(m) = 1
                       /\ Accepted(m) /\ ~Held(m) => Times(m) = 1

\* C2: the callbacks of accepted messages run in the order the messages were
\* admitted, which is the strictly increasing order of their sequence ids.
C2_CallbacksInAdmissionOrder ==
    \A i, j \in 1..Len(cbLog) :
        (i < j /\ Accepted(cbLog[i].m) /\ Accepted(cbLog[j].m))
            => /\ cbLog[i].m < cbLog[j].m
               /\ msg[cbLog[i].m].seq < msg[cbLog[j].m].seq

\* The SEND frames a connection gets for a sequence of ops.
FramesOf(ops) == [i \in 1..Len(ops) |-> [id |-> ops[i].id, seq |-> ops[i].seq]]

\* The ops of q that are not in p.
NewOps(p, q) ==
    SelectSeq(q, LAMBDA op : ~IsNull(op) /\ \A i \in 1..Len(p) : p[i].id # op.id)

\* C3: in the step that attaches the producer to a connection, that connection
\* is handed exactly the ops of pendingMessagesQueue, in queue order and
\* unchanged, and while the producer stays attached the connection is handed
\* nothing but the ops enqueued after them, in the order they are enqueued.
C3_ResendBeforeNewOps ==
    [][ (connection' # 0 /\ cnxState'[connection'] # "Disconnected" /\ ~crashed')
          => IF connection' # connection
             THEN /\ pendingMessagesQueue' = pendingMessagesQueue
                  /\ frames'[connection'] =
                         frames[connection'] \o FramesOf(pendingMessagesQueue)
             ELSE frames'[connection'] =
                      frames[connection'] \o
                      FramesOf(NewOps(pendingMessagesQueue, pendingMessagesQueue'))
      ]_vars

\* C3 witness: the producer is Ready again on the second connection, which was
\* handed the one op that was queued, while a second sendAsync call waits for
\* the mutex.
C3_Witness ==
    /\ state = "Ready" /\ connection = MaxCnx /\ epoch > 0
    /\ Len(pendingMessagesQueue) = 1
    /\ frames[connection] = FramesOf(pendingMessagesQueue)
    /\ \E m \in Msgs : msg[m].phase = "admitted"

\* Nothing is in flight: no sendAsync call is under way and no op is queued,
\* batched or waiting for its completion.
AllEnded ==
    /\ \A m \in Msgs : msg[m].phase \in {"new", "queued", "done"}
    /\ pendingMessagesQueue = <<>> /\ batchMessageContainer = <<>>
    /\ ioDone = <<>> /\ timerDone = <<>>

\* C4: what a message acquired is released exactly once: never more permits
\* available than maxPendingMessages (no more released than acquired), never
\* less than zero bytes reserved, and both counters back at their initial
\* values once every message has ended.
C4_ReleasedExactlyOnce ==
    /\ semaphore >= 0
    /\ memory >= 0
    /\ AllEnded => semaphore = 0 /\ memory = 0

\* C6: lastSequenceIdPublished never decreases and never exceeds
\* msgSequenceGenerator - 1.
C6_LastSequenceIdMonotone ==
    [][ /\ lastSequenceIdPublished' >= lastSequenceIdPublished
        /\ lastSequenceIdPublished' <= msgSequenceGenerator' - 1 ]_vars

\* The messages holding a permit: the ops of the queue and the messages of the
\* batch container.
Holding ==
    Len(SelectSeq(pendingMessagesQueue, LAMBDA op : ~IsNull(op))) + Len(batchMessageContainer)

\* C7: without blockIfQueueFull no more than maxPendingMessages messages hold a
\* permit, and a sendAsync call that reaches admission while that many hold one
\* ends there with ProducerQueueIsFull and without its message being enqueued.
C7_QueueFullWithoutBlocking ==
    [][ ~conf.blockIfQueueFull =>
          /\ Holding' <= conf.maxPendingMessages
          /\ \A m \in Msgs :
                (/\ msg[m].phase = "checked" /\ msg'[m].phase # "checked"
                 /\ Holding = conf.maxPendingMessages)
                    => /\ msg'[m].phase = "done"
                       /\ cbLog' = Append(cbLog, [m |-> m, r |-> "ProducerQueueIsFull"])
                       /\ Holding' = Holding ]_vars

\* The op flushAsync took its reference to still exists.
FlushOpHeld ==
    \/ InQueue(World, flush.op)
    \/ InTimerDone(World, flush.op)
    \/ \E i \in 1..Len(ioDone) : ioDone[i].op.id = flush.op

\* C9: the callback of flushAsync runs exactly once: never twice, the call
\* does not bring the process down, and once the call is over and the op that
\* was at the tail of the queue has been completed the callback has run.
C9_FlushCallbackExactlyOnce ==
    /\ Len(flushLog) <= 1
    /\ ~(crashed /\ flush.pc = "register")
    /\ (flush.pc = "done" /\ ~FlushOpHeld) => Len(flushLog) = 1

\* C10: close takes effect at most once per connection.  The step that makes
\* a connection Disconnected moves out exactly the handlers registered at that
\* moment, the notification that follows delivers one handleDisconnection to
\* each of them and to nobody else, no handler ever gets a second one, and on
\* a connection that is Disconnected a call of close moves nothing out again.
C10_CloseAtMostOnce ==
    [][ \A c \in Cnxs :
          /\ \A h \in Handlers : disconnections'[c][h] <= 1
          /\ cnxState[c] = "Disconnected"
                => /\ cnxState'[c] = "Disconnected"
                   /\ Len(closing'[c]) <= Len(closing[c])
          /\ (cnxState[c] # "Disconnected" /\ cnxState'[c] = "Disconnected")
                => /\ Len(closing'[c]) = 1
                   /\ closing'[c][1].handlers = cnxProducers[c]
                   /\ disconnections'[c] = disconnections[c]
          /\ Len(closing'[c]) < Len(closing[c])
                => \A h \in Handlers :
                      disconnections'[c][h] =
                          disconnections[c][h] +
                          (IF h \in Head(closing[c]).handlers THEN 1 ELSE 0)
          /\ Len(closing'[c]) >= Len(closing[c])
                => disconnections'[c] = disconnections[c]
      ]_vars

\* C10 witness: a connection that had the producer and the consumer registered
\* is Disconnected, its close has finished, and each of the two got exactly one
\* handleDisconnection.
C10_Witness ==
    \E c \in Cnxs :
        /\ cnxState[c] = "Disconnected" /\ closing[c] = <<>>
        /\ \A h \in Handlers : disconnections[c][h] = 1

\* --------------------------------------------------------------- fairness
\* The same producer under fairness: timers fire, handlers that were scheduled
\* run, a call that has started goes on, the broker answers what it was sent.
\* The caller is free never to call, and the runs lose no connection.
InitLive == Constructed(LiveRuns)

NextLive ==
    \/ Start
    \/ \E m \in Msgs : SendAsyncCheck(m)
    \/ \E m \in Msgs : SendAsyncAdmit(m)
    \/ \E m \in Msgs : SendAsyncLocked(m)
    \/ CloseAsync
    \/ HandleSendTimeout
    \/ TimerComplete
    \/ HandleNewConnection
    \/ ConnectionFailedStore
    \/ HandleCreateProducerReady
    \/ \E c \in Cnxs : HandleTcpConnected(c)
    \/ \E c \in Cnxs : HandlePulsarConnected(c)
    \/ \E c \in Cnxs : HandleSendReceipt(c)
    \/ \E c \in Cnxs : HandleProducerSuccess(c)
    \/ \E c \in Cnxs : HandleSuccess(c)
    \/ \E c \in Cnxs : HandleError(c)
    \/ IoComplete

Fairness ==
    /\ WF_vars(Start)
    /\ WF_vars(\E m \in Msgs : SendAsyncAdmit(m))
    /\ WF_vars(\E m \in Msgs : SendAsyncLocked(m))
    /\ WF_vars(HandleSendTimeout)
    /\ WF_vars(TimerComplete)
    /\ WF_vars(HandleNewConnection)
    /\ WF_vars(ConnectionFailedStore)
    /\ WF_vars(HandleCreateProducerReady)
    /\ WF_vars(\E c \in Cnxs : HandleTcpConnected(c))
    /\ WF_vars(\E c \in Cnxs : HandlePulsarConnected(c))
    /\ WF_vars(\E c \in Cnxs : HandleSendReceipt(c))
    /\ WF_vars(\E c \in Cnxs : HandleProducerSuccess(c))
    /\ WF_vars(\E c \in Cnxs : HandleSuccess(c) \/ HandleError(c))
    /\ WF_vars(IoComplete)

SpecLive == InitLive /\ [][NextLive]_vars /\ Fairness

\* C5: with sendTimeout > 0 and timers that fire, every op placed in
\* pendingMessagesQueue is eventually removed from it and its callback invoked.
C5_QueuedOpsEventuallyCompleted ==
    \A m \in Msgs :
        (conf.sendTimeout > 0 /\ OwedBy(pendingMessagesQueue, m))
            ~> (Times(m) >= 1 /\ ~OwedBy(pendingMessagesQueue, m))

\* C8: the closeAsync call of a producer that is Pending or Ready leaves no
\* pending op behind, each of them completed with AlreadyClosed; the close
\* callback runs at most once and, once that call was made, does run; and the
\* producer eventually becomes Closed.
C8_CloseAsyncEndsClosed ==
    /\ [][ (closeAsyncCalls' > closeAsyncCalls /\ state \in {"Pending", "Ready"})
              => /\ pendingMessagesQueue' = <<>> /\ batchMessageContainer' = <<>>
                 /\ \A m \in Msgs :
                       (OwedBy(pendingMessagesQueue, m) \/
                        \E i \in 1..Len(batchMessageContainer) :
                            batchMessageContainer[i].m = m)
                          => \E i \in Len(cbLog) + 1..Len(cbLog') :
                                 cbLog'[i] = [m |-> m, r |-> "AlreadyClosed"] ]_vars
    /\ [](Len(closeLog) <= 1)
    /\ (closeAsyncCalls > 0) ~> (state = "Closed" /\ Len(closeLog) = 1)

\* C13: once the producer's state is Closed, Failed or Producer_Fenced, no step
\* of closeAsync, shutdown, connectionFailed, handleCreateProducer or
\* handleDisconnection, however they interleave, changes it again.
C13_TerminalStatesStay ==
    [][ (state \in {"Closed", "Failed", "Producer_Fenced"}) => (state' = state) ]_vars

\* C16: no sendAsync call waits for a permit of the semaphore or for memory
\* while it holds mutex_, the mutex ackReceived and handleSendTimeout need
\* before they can release anything.
C16_NoWaitUnderMutex ==
    \A m \in Msgs : ~(msg[m].phase = "blocked" /\ mutexHolder = m)

\* C17: the sequence ids of the ops of pendingMessagesQueue are strictly
\* increasing from head to tail.
C17_QueueStrictlyIncreasing ==
    \A i, j \in 1..Len(pendingMessagesQueue) :
        (i < j /\ ~IsNull(pendingMessagesQueue[i]) /\ ~IsNull(pendingMessagesQueue[j]))
            => pendingMessagesQueue[i].seq < pendingMessagesQueue[j].seq

\* C18: while pendingMessagesQueue is not empty, the sequence id of its head op
\* is above lastSequenceIdPublished and at most msgSequenceGenerator - 1.
C18_HeadBetweenPublishedAndGenerator ==
    (pendingMessagesQueue # <<>> /\ ~IsNull(Head(pendingMessagesQueue)))
        => /\ lastSequenceIdPublished < Head(pendingMessagesQueue).seq
           /\ Head(pendingMessagesQueue).seq <= msgSequenceGenerator - 1

Ceil(a, b) == (a + b - 1) \div b

\* C19: a sendAsync call with chunking enabled that gets its message of S bytes
\* into the queue enqueues exactly ceil(S / L) ops, L = maxMessageSize -
\* metadataSize, with chunk ids 0, 1, ... and contiguous slices of at most L
\* bytes that add up to S; a call that ends with a failure enqueues nothing,
\* and with metadataSize >= maxMessageSize the failure is MessageTooBig.
C19_ChunksCoverPayload ==
    [][ \A m \in Msgs :
          (/\ conf.chunking
           /\ msg[m].phase \in {"admitted", "blocked"}
           /\ msg'[m].phase \in {"queued", "done"})
             => LET S == msg[m].kind.size
                    L == maxMessageSize - MetadataSize
                    new == NewOps(pendingMessagesQueue, pendingMessagesQueue')
                IN IF msg'[m].phase = "queued"
                   THEN /\ L > 0
                        /\ Len(new) = Ceil(S, L)
                        /\ \A i \in 1..Len(new) :
                              /\ new[i].chunkId = i - 1
                              /\ new[i].endIndex - new[i].beginIndex <= L
                              /\ new[i].beginIndex = IF i = 1 THEN 0 ELSE new[i - 1].endIndex
                        /\ new[Len(new)].endIndex = S
                   ELSE /\ new = <<>>
                        /\ L <= 0 => cbLog' = Append(cbLog, [m |-> m, r |-> "MessageTooBig"])
      ]_vars

\* C20: of the ops of a message of n >= 2 chunks only the one of chunk n - 1
\* carries the callback, and the MessageId that callback gets with ResultOk is
\* made of the id acknowledged for chunk 0 and the id acknowledged for chunk
\* n - 1 of that message.
C20_ChunkedCallbackGetsCompositeId ==
    /\ \A i \in 1..Len(pendingMessagesQueue) :
          LET op == pendingMessagesQueue[i]
          IN op.numChunks >= 2 => (op.cbs # <<>> <=> op.chunkId = op.numChunks - 1)
    /\ \A m \in Msgs :
          messageIds[m].numChunks >= 2
              => messageIds[m].id = <<OpId(m, 0), OpId(m, messageIds[m].numChunks - 1)>>

\* C11: once a connection is Disconnected and its close has delivered what it
\* moved out, nothing registered on the connection is left uncompleted: the
\* connect promise is completed, pendingRequests_ is empty, and no promise of
\* the lookup, consumer-stats, get-last-message-id, get-topics-of-namespace and
\* get-schema registries is still pending.
C11_NoPromisePendingOnClosedConnection ==
    \A c \in Cnxs :
        (cnxState[c] = "Disconnected" /\ closing[c] = <<>>)
            => /\ connectPromise[c] # "Pending"
               /\ pendingRequests[c] = {}
               /\ \A k \in Registries : registries[c][k].promise # "Pending"

\* C15: on a Ready connection whose keep-alive timer is armed, a firing of the
\* timer that finds no PING outstanding sends PING, sets
\* havePendingPingRequest_ and closes nothing; a firing that finds the PING
\* still outstanding (no frame came in since) closes the connection once, with
\* result Retryable.
C15_KeepAliveClosesWithRetryable ==
    [][ \A c \in Cnxs :
          (HandleKeepAliveTimeout(c) /\ cnxState[c] = "Ready")
             => IF havePendingPingRequest[c]
                THEN /\ cnxState'[c] = "Disconnected"
                     /\ Len(closing'[c]) = Len(closing[c]) + 1
                     /\ closing'[c][Len(closing'[c])].result = "Retryable"
                ELSE /\ havePendingPingRequest'[c]
                     /\ accepted'[c] = Append(accepted[c], Command("PING", 0))
                     /\ cnxState'[c] = "Ready" /\ closing'[c] = closing[c]
      ]_vars

\* C12: the state of a connection only moves Pending -> TcpConnected -> Ready
\* or from one of these to Disconnected; it becomes Ready only when the
\* broker's first frame is handled in TcpConnected; and once it is Disconnected
\* it stays Disconnected, whatever completes or arrives afterwards.
C12_ConnectionStateMachine ==
    [][ \A c \in Cnxs :
          /\ (cnxState[c] = "Disconnected") => (cnxState'[c] = "Disconnected")
          /\ (cnxState'[c] # cnxState[c])
                => \/ cnxState[c] = "None" /\ cnxState'[c] = "Pending"
                   \/ cnxState[c] = "Pending" /\ cnxState'[c] = "TcpConnected"
                   \/ cnxState[c] = "TcpConnected" /\ cnxState'[c] = "Ready"
                   \/ cnxState[c] # "None" /\ cnxState'[c] = "Disconnected"
          /\ (cnxState'[c] = "Ready" /\ cnxState[c] # "Ready")
                => (cnxState[c] = "TcpConnected" /\ HandlePulsarConnected(c))
      ]_vars

\* A CONNECTED frame was handled on the first connection (its max_message_size
\* was stored) although the connection had been closed before it ever was
\* Ready, and the connection is still Disconnected.
C12_Witness ==
    /\ cnxState[1] = "Disconnected" /\ cnxState[2] = "None"
    /\ handshake[1] = "done"
    /\ connectPromise[1] \notin {"Ok", "Pending"}
    /\ maxMessageSize = MetadataSize

\* C14: while a connection is open, the commands handed to its socket followed
\* by the commands still waiting in pendingWriteBuffers_ are exactly the
\* commands sendCommand and sendMessage accepted, in the order in which they
\* were accepted: none is lost, none is written twice, none overtakes another.
\* A buffer waits only while a write is in flight, and pendingWriteOperations_
\* counts the write in flight and the waiting buffers.
C14_WritesInAcceptedOrder ==
    \A c \in Cnxs :
        cnxState[c] = "Ready"
            => /\ socket[c] \o pendingWriteBuffers[c] = accepted[c]
               /\ pendingWriteBuffers[c] # <<>> => pendingWriteOperations[c] > 0
               /\ pendingWriteOperations[c] > 0
                     => pendingWriteOperations[c] = Len(pendingWriteBuffers[c]) + 1

\* Two commands wait behind a write in flight, and a SEND frame has gone
\* through the queue to the socket.
C14_Witness ==
    \E c \in Cnxs :
        /\ cnxState[c] = "Ready"
        /\ Len(pendingWriteBuffers[c]) >= 2
        /\ \E i \in 2..Len(socket[c]) : socket[c][i].cmd = "SEND"

\* The results of CREATE_PRODUCER after which the producer is not to retry.
TerminalKinds ==
    {"ProducerFenced", "ProducerBlockedQuotaExceededException", "AuthenticationError",
     "TopicTerminated", "IncompatibleSchema"}

\* C21: when the response to CREATE_PRODUCER carries ProducerFenced, the hard
\* quota error, AuthenticationError, TopicTerminated or IncompatibleSchema, the
\* step that handles it arms no reconnection timer, on the first creation and on
\* a re-creation alike.
C21_NoRetryOnTerminalErrors ==
    [][ (/\ ioDone # <<>>
         /\ Head(ioDone).type = "resp" /\ Head(ioDone).req.kind = "create"
         /\ ~Head(ioDone).req.done
         /\ Head(ioDone).r \in TerminalKinds
         /\ ioDone' = Tail(ioDone))
            => (timer' = "armed" => timer = "armed") ]_vars

\* C22: the process-wide maxMessageSize never decreases, whatever CONNECTED
\* frames the connections receive.
C22_MaxMessageSizeMonotone ==
    [][ maxMessageSize' >= maxMessageSize ]_vars

\* The broker answers the next SEND frame of connection c, sent by the
\* producer attached to it, with SEND_ERROR(ChecksumError).
ChecksumErrorStep(c) ==
    /\ ~crashed /\ cnxState[c] = "Ready" /\ ioDone = <<>> /\ mutexHolder = 0
    /\ cursor[c] < Len(frames[c])
    /\ TheProducer \in cnxProducers[c]
    /\ Set(handleSendError([commandInReady(World, c) EXCEPT !.cursor[c] = @ + 1], c,
                           frames[c][cursor[c] + 1].seq, "ChecksumError"))

\* C23: removeCorruptMessage(seq) takes the head op out of the queue, to be
\* completed with ChecksumError and its permits released, only when seq is the
\* head's sequence id; when the queue is empty or seq differs from the head's
\* id the queue and its ops stay exactly as they were, and the connection is
\* closed exactly when seq is larger than the head's id.
C23_RemoveCorruptTouchesMatchingHeadOnly ==
    [][ \A c \in Cnxs :
          ChecksumErrorStep(c)
             => LET seq == frames[c][cursor[c] + 1].seq
                    q == pendingMessagesQueue
                IN IF q # <<>> /\ seq = Head(q).seq
                   THEN /\ pendingMessagesQueue' = Tail(q)
                        /\ ioDone' = <<IoOp(Head(q), "ChecksumError", TRUE, <<>>)>>
                        /\ cnxState'[c] = "Ready"
                   ELSE /\ pendingMessagesQueue' = q
                        /\ ioDone' = <<>>
                        /\ destroyed' = destroyed
                        /\ (cnxState'[c] = "Disconnected") <=> (q # <<>> /\ seq > Head(q).seq)
      ]_vars

\* C24: msgSequenceGenerator never decreases, and a message without a
\* caller-supplied sequence id gets the generator's value, which is then
\* incremented; so the ids the producer assigns itself are strictly increasing
\* in assignment order, and pairwise distinct, over the producer's whole life.
C24_AssignedSequenceIdsIncrease ==
    [][ /\ msgSequenceGenerator' >= msgSequenceGenerator
        /\ \A m \in Msgs :
              (msg[m].phase = "admitted" /\ msg'[m].phase # "admitted" /\ ~msg[m].kind.hasSeq)
                 => /\ msg'[m].seq = msgSequenceGenerator
                    /\ msgSequenceGenerator' = msgSequenceGenerator + 1
      ]_vars

\* C25: whenever the producer is Closing, Closed, Failed or Producer_Fenced,
\* pendingMessagesQueue is empty.
C25_NoOpsQueuedOnceTerminal ==
    state \in {"Closing", "Closed", "Failed", "Producer_Fenced"}
        => pendingMessagesQueue = <<>>

\* HandleSendReceipt(c) while the producer is registered on connection c: the
\* step in which ackReceived runs for the next SEND frame of c.
AckStep(c) == HandleSendReceipt(c) /\ TheProducer \in cnxProducers[c]

\* C26: ackReceived(seq, id) with an empty queue, or with seq different from
\* the sequence id of the head op, changes neither the queue nor
\* lastSequenceIdPublished nor the permits nor the reserved memory and invokes
\* no callback; it returns true (the connection stays Ready) when the queue is
\* empty or seq is smaller than the head's id, false (handleSendReceipt closes
\* the connection) when seq is larger.
C26_AckMismatchIsNoOp ==
    [][ \A c \in Cnxs : AckStep(c) =>
          LET seq == frames[c][cursor[c] + 1].seq
              q == pendingMessagesQueue
          IN (q = <<>> \/ seq # Head(q).seq) =>
                /\ ~crashed'
                /\ pendingMessagesQueue' = q
                /\ lastSequenceIdPublished' = lastSequenceIdPublished
                /\ semaphore' = semaphore /\ memory' = memory
                /\ ioDone' = <<>> /\ cbLog' = cbLog
                /\ (q = <<>> \/ seq < Head(q).seq) => cnxState'[c] = "Ready"
                /\ (q # <<>> /\ seq > Head(q).seq) => cnxState'[c] = "Disconnected" ]_vars

\* C27: ackReceived(seq, id) with seq equal to the sequence id of the head op
\* pops that op and no other, gives back its messagesCount permits and its
\* messagesSize bytes once, sets lastSequenceIdPublished to
\* seq + messagesCount - 1, and invokes no callback in that step; the op's
\* callbacks run with Ok in the step after the unlock, which releases nothing
\* more and leaves the queue alone.
C27_AckOfHeadPopsHeadOnly ==
    [][ /\ \A c \in Cnxs : AckStep(c) =>
              LET seq == frames[c][cursor[c] + 1].seq
                  q == pendingMessagesQueue
              IN (q # <<>> /\ ~IsNull(Head(q)) /\ seq = Head(q).seq) =>
                    /\ pendingMessagesQueue' = Tail(q)
                    /\ semaphore' = semaphore - Head(q).cnt
                    /\ memory' = memory - Head(q).size
                    /\ lastSequenceIdPublished' = seq + Head(q).cnt - 1
                    /\ cbLog' = cbLog
                    /\ Len(ioDone') = 1 /\ ioDone'[1].type = "op" /\ ioDone'[1].op = Head(q)
                    /\ ioDone'[1].r = "Ok" /\ ~ioDone'[1].release
                    /\ cnxState'[c] = "Ready"
        /\ (/\ ioDone # <<>> /\ Head(ioDone).type = "op" /\ Head(ioDone).r = "Ok"
            /\ ioDone' = Tail(ioDone))
              => /\ cbLog' = cbLog \o CompleteOp(Head(ioDone).op, "Ok")
                 /\ semaphore' = semaphore /\ memory' = memory
                 /\ pendingMessagesQueue' = pendingMessagesQueue ]_vars

\* the receipt of the head op was handled while another op is queued behind it
C27_Witness ==
    /\ ioDone # <<>> /\ Head(ioDone).type = "op" /\ Head(ioDone).r = "Ok"
    /\ pendingMessagesQueue # <<>> /\ ~HasNull(pendingMessagesQueue)
    /\ lastSequenceIdPublished = Head(ioDone).op.seq + Head(ioDone).op.cnt - 1

RECURSIVE SumCnt(_)
SumCnt(ops) == IF ops = <<>> THEN 0 ELSE Head(ops).cnt + SumCnt(Tail(ops))
RECURSIVE SumSize(_)
SumSize(ops) == IF ops = <<>> THEN 0 ELSE Head(ops).size + SumSize(Tail(ops))

\* C28: when sendTimer_ fires while the producer is Pending or Ready, either
\* (queue empty, or head not yet due) nothing is completed, the queue is as it
\* was and the timer is armed again, or (head due) the queue becomes empty, the
\* permits and bytes of all its ops are given back, the timer is armed again
\* and the ops are completed with Timeout in queue order, head first, in the
\* step after the unlock.
C28_SendTimeoutFailsWholeQueueInOrder ==
    [][ /\ (HandleSendTimeout /\ state \in {"Pending", "Ready"}) =>
              LET q == pendingMessagesQueue
                  held == batchMessageContainer
              IN /\ ~crashed' /\ sendTimer' = "armed" /\ cbLog' = cbLog
                 /\ \/ /\ pendingMessagesQueue' = q /\ timerDone' = <<>>
                       /\ semaphore' = semaphore /\ memory' = memory
                    \/ /\ q # <<>> /\ pendingMessagesQueue' = <<>>
                       /\ Len(timerDone') >= Len(q)
                       /\ SubSeq(timerDone', 1, Len(q)) = q
                       /\ semaphore' = semaphore - SumCnt(q) - Len(held)
                       /\ memory' = memory - SumSize(q) - TotalSize(held)
        /\ (timerDone # <<>> /\ timerDone' = <<>>) =>
              /\ cbLog' = cbLog \o CompleteAll(timerDone, "Timeout")
              /\ semaphore' = semaphore /\ memory' = memory ]_vars

\* C29: a sendAsync call whose canEnqueueRequest fails (ProducerQueueIsFull,
\* MemoryBufferIsFull or Interrupted) leaves the number of permits in use as it
\* was: a permit taken before the memory reservation failed is given back
\* before the error is returned.  (Calls of a batching producer are left out:
\* they send the batch on the same path.)
C29_FailedAdmissionKeepsPermits ==
    [][ \A m \in Msgs :
          (/\ ~conf.batching /\ msg[m].phase = "checked" /\ msg'[m].phase = "done"
           /\ cbLog' # cbLog
           /\ cbLog'[Len(cbLog')].r \in {"ProducerQueueIsFull", "MemoryBufferIsFull", "Interrupted"})
             => semaphore' = semaphore ]_vars

\* Writes handed to the socket of connection c whose completion handler has not
\* run: the one sendCommand / sendMessage / sendPendingCommands started, and
\* those of handleAuthChallenge.
WritesInFlight(c) ==
    (pendingWriteOperations[c] - Len(pendingWriteBuffers[c])) + authResponseWrites[c]

\* C30: on an open connection at most one socket write is outstanding, and
\* pendingWriteOperations is the number of queued buffers plus one if a write
\* is outstanding.
C30_OneWriteAtATime ==
    \A c \in Cnxs : cnxState[c] = "Ready" =>
        /\ WritesInFlight(c) <= 1
        /\ pendingWriteOperations[c] =
              Len(pendingWriteBuffers[c]) + (IF WritesInFlight(c) > 0 THEN 1 ELSE 0)

\* C31: the deadline timer of a request fails its promise with Timeout only
\* if no PRODUCER_SUCCESS with producerReady = false was seen for it; after
\* such a response the entry stays registered, and it leaves the registry only
\* with its promise completed by PRODUCER_SUCCESS (ready), by ERROR, or by the
\* connection closing.
C31_InterimResponseStopsTimeout ==
    [][ \A c \in Cnxs : \A req \in pendingRequests[c] :
          /\ (~req.done /\ [req EXCEPT !.fired = TRUE, !.done = TRUE] \in pendingRequests'[c])
                => ~req.got
          /\ (req.got /\ ~req.done) =>
                \/ req \in pendingRequests'[c]
                \/ [req EXCEPT !.fired = TRUE] \in pendingRequests'[c]
                \/ /\ ioDone' # <<>>
                   /\ ioDone'[Len(ioDone')].type = "resp" /\ ioDone'[Len(ioDone')].req = req
                   /\ ioDone'[Len(ioDone')].r \in {"Ok"} \cup CreateErrors
                \/ /\ cnxState'[c] = "Disconnected" /\ closing'[c] # <<>>
                   /\ req \in closing'[c][Len(closing'[c])].requests ]_vars

\* the deadline timer has fired after the interim response; the request is
\* still registered and its promise still pending
C31_Witness ==
    \E c \in Cnxs : \E req \in pendingRequests[c] :
        req.kind = "create" /\ req.got /\ req.fired /\ ~req.done /\ cnxState[c] = "Ready"

C33_DisconnectionArmsOnlyPendingOrReady ==
    [][ /\ \A c \in Cnxs : \A result \in {"Retryable", "ConnectError", "AuthenticationError"} :
              (connection # 0 /\ connection # c) => handleDisconnection(World, result, c) = World
        /\ \A c \in Cnxs :
              (/\ CloseNotify(c) /\ TheProducer \in Head(closing[c]).handlers
               /\ (connection = 0 \/ connection = c))
                 => /\ ~(state \in {"Pending", "Ready"}) => (timer' = "armed" => timer = "armed")
                    /\ state \in {"Pending", "Ready"} => (timer' = "armed" /\ connection' = 0) ]_vars

\* a closing connection has delivered its disconnection to the producer after
\* closeAsync: the producer is Closed and no reconnection is scheduled
C33_Witness ==
    /\ state = "Closed" /\ timer = "idle" /\ connection = 0
    /\ \E c \in Cnxs : disconnections[c][TheProducer] > 0 /\ closing[c] = <<>>

\* The step in which the listener of CREATE_PRODUCER runs with ProducerFenced
\* for a producer that is Pending or Ready.
FencedStep ==
    /\ ioDone # <<>> /\ Head(ioDone).type = "resp" /\ Head(ioDone).req.kind = "create"
    /\ ~Head(ioDone).req.done /\ Head(ioDone).r = "ProducerFenced"
    /\ state \in {"Pending", "Ready"} /\ ioDone' = Tail(ioDone)

\* C34: a ProducerFenced answer to CREATE_PRODUCER for a producer in Pending or
\* Ready makes it Producer_Fenced, completes every op of the queue (and of the
\* batch container) with ProducerFenced in order, fails the producer-created
\* promise if it was still pending and leaves it alone otherwise, schedules no
\* reconnection; and a sendAsync call that finds the producer Producer_Fenced
\* gets ProducerFenced and queues nothing.
C34_FencedIsTerminal ==
    [][ /\ FencedStep =>
              /\ ~crashed' /\ state' = "Producer_Fenced"
              /\ pendingMessagesQueue' = <<>> /\ batchMessageContainer' = <<>>
              /\ cbLog' = cbLog \o CompleteAll(PendingCallbacks(World), "ProducerFenced")
              /\ producerCreatedPromise' =
                    (IF producerCreatedPromise = "pending" THEN "failed"
                     ELSE producerCreatedPromise)
              /\ timer' = timer /\ cnxRequest' = cnxRequest /\ epoch' = epoch
              /\ connection' = connection
        /\ \A m \in Msgs :
              (state = "Producer_Fenced" /\ msg[m].phase = "new" /\ msg'[m].phase # "new")
                 => /\ msg'[m].phase = "done"
                    /\ cbLog' = Append(cbLog, [m |-> m, r |-> "ProducerFenced"])
                    /\ pendingMessagesQueue' = pendingMessagesQueue
                    /\ batchMessageContainer' = batchMessageContainer
                    /\ semaphore' = semaphore /\ memory' = memory ]_vars

\* C35: a timer handler invoked because its wait was cancelled changes no
\* state.  In every state a cancelled wait's handler can run in, the
\* reconnection timer handler (it neither increments epoch nor calls grabCnx),
\* the send-timeout handler (no op times out, no re-arm), the batch timer
\* handler (nothing is flushed), the request, lookup and get-last-message-id
\* deadline handlers (no promise fails) and the keep-alive handler after the
\* close that cancelled it (no PING, no close) all leave the state as it is.
C35_CancelledTimerHandlerChangesNothing ==
    ~crashed =>
    /\ state # "NotStarted" =>
          /\ \A pick \in Picks : handleTimeout(World, TRUE, pick) = World
          /\ \A expired \in BOOLEAN : handleSendTimeout(World, TRUE, expired) = World
          /\ handleBatchTimeout(World, TRUE) = World
    /\ \A c \in Cnxs :
          /\ \A req \in pendingRequests[c] \cup {Request("create"), Request("close")} :
                \A elapsed \in BOOLEAN :
                    handleRequestTimeout(World, TRUE, c, req, elapsed) = World
          /\ \A k \in LookupKinds \cup {"getLastMessageId"} :
                handleLookupTimeout(World, TRUE, c, k) = World
          /\ (cnxState[c] = "Disconnected" /\ keepAliveTimer[c] = "none")
                => handleKeepAliveTimeout(World, c) = World

\* close() cancelled the keep-alive timer of a connection with a PING
\* outstanding; the producer is Ready again and waits for its reconnection timer
C35_Witness ==
    \E c \in Cnxs : /\ cnxState[c] = "Disconnected" /\ keepAliveTimer[c] = "none"
                    /\ connectPromise[c] = "Ok" /\ havePendingPingRequest[c]
                    /\ state = "Ready" /\ timer = "armed"

\* C36: every frame received on a connection in Ready state, MESSAGE frames
\* included, clears havePendingPingRequest, so a connection on which a frame
\* came in since the keep-alive handler last ran is not closed by the handler:
\* on a Ready connection that got a frame in the current keep-alive interval
\* the flag is not set, and a keep-alive handler that closes the connection
\* finds no frame received in the interval.
C36_AnyFrameClearsPendingPing ==
    [][ \A c \in Cnxs :
          /\ (cnxState'[c] = "Ready" /\ frameReceived'[c]) => ~havePendingPingRequest'[c]
          /\ (HandleKeepAliveTimeout(c) /\ cnxState[c] = "Ready"
              /\ cnxState'[c] = "Disconnected") => ~frameReceived[c] ]_vars

\* C37: an exception thrown by a user send callback never leaves a handler
\* that runs on an I/O thread: not the completion after an acknowledgement or
\* after a ChecksumError (IoComplete), not the loop of handleSendTimeout
\* (TimerComplete), not failPendingMessages on a create-producer response
\* (IoComplete, or CloseNotify when the connection closes under the request).
C37_CallbackExceptionsStayInside ==
    [][ (TimerComplete \/ IoComplete \/ \E c \in Cnxs : CloseNotify(c)) => ~thrown' ]_vars

\* C38: on every connection numOfPendingLookupRequest stays between 0 and
\* concurrentLookupRequest and, when no close of the connection is under way,
\* equals the number of lookups whose promise is not yet completed; a lookup
\* issued when the cap is reached fails with TooManyLookupRequestException, is
\* not registered and nothing is sent for it.
C38_LookupCounterCountsUncompleted ==
    [][ \A c \in Cnxs :
          /\ numOfPendingLookupRequest'[c] \in 0..ConcurrentLookupRequest
          /\ closing'[c] = <<>> =>
                numOfPendingLookupRequest'[c] =
                    Cardinality({k \in LookupKinds : registries'[c][k].promise = "Pending"})
          /\ \A k \in LookupKinds :
                (/\ registries[c][k].promise = "none" /\ registries'[c][k].promise # "none"
                 /\ cnxState[c] # "Disconnected"
                 /\ numOfPendingLookupRequest[c] >= ConcurrentLookupRequest)
                => /\ registries'[c][k] = [in |-> FALSE,
                                           promise |-> "TooManyLookupRequestException"]
                   /\ accepted'[c] = accepted[c]
                   /\ numOfPendingLookupRequest'[c] = numOfPendingLookupRequest[c] ]_vars

\* The listener of a CREATE_PRODUCER request runs with result r on connection
\* c while the producer is neither Pending nor Ready: for a response or an
\* ERROR of the broker, and for the request's deadline timer.
LateCreateResponse(c, r) ==
    /\ state \notin {"Pending", "Ready"}
    /\ \/ /\ IoComplete /\ Head(ioDone).type = "resp" /\ Head(ioDone).c = c
          /\ Head(ioDone).req.kind = "create" /\ ~Head(ioDone).req.done
          /\ Head(ioDone).r = r
       \/ /\ r = "Timeout" /\ HandleRequestTimeout(c)
          /\ Request("create") \in pendingRequests[c]
          /\ [Request("create") EXCEPT !.fired = TRUE, !.done = TRUE] \in pendingRequests'[c]

\* C39: when the CREATE_PRODUCER response arrives while the producer state is
\* no longer Pending or Ready, the producer is not registered in the
\* connection, is not attached to it, its state does not change, its pending
\* ops are completed with AlreadyClosed, and for Ok or Timeout a
\* CLOSE_PRODUCER request is sent on the connection (nothing is sent
\* otherwise).
C39_LateCreateResponseKeepsProducerClosed ==
    [][ \A c \in Cnxs : \A r \in {"Ok", "Timeout"} \cup CreateErrors :
          LateCreateResponse(c, r) =>
             /\ ~crashed'
             /\ cnxProducers' = cnxProducers
             /\ connection' = connection
             /\ state' = state
             /\ pendingMessagesQueue' = <<>> /\ batchMessageContainer' = <<>>
             /\ cbLog' = cbLog \o CompleteAll(PendingCallbacks(World), "AlreadyClosed")
             /\ producerCreatedPromise' # "value" \/ producerCreatedPromise = "value"
             /\ accepted'[c] =
                   IF r \in {"Ok", "Timeout"} /\ cnxState[c] # "Disconnected"
                   THEN Append(accepted[c], Command("CLOSE_PRODUCER", 0))
                   ELSE accepted[c]
             /\ (r \in {"Ok", "Timeout"} /\ cnxState[c] # "Disconnected")
                   => Request("cleanup") \in pendingRequests'[c] ]_vars

\* C40: every entry of a connection's pending-request registry has a promise
\* that is not yet completed: a request whose promise was completed, by a
\* response, by an ERROR or by its deadline timer, is no longer in
\* pendingRequests_.
C40_PendingRequestsAreUncompleted ==
    \A c \in Cnxs : \A req \in pendingRequests[c] : ~req.done

====
